---- MODULE Spec2Model ----
(***************************************************************************)
(* The parallel seed-scan engine of src/src/engine.c: the coordinators     *)
(* search_seeds and search_seeds_stream, their workers thread_worker and   *)
(* stream_thread_worker, and the per-seed predicate they evaluate on top   *)
(* of the world-generation oracle (finders.h / generator.h).               *)
(***************************************************************************)
EXTENDS Integers, Sequences, FiniteSets, TLC

(***************************************************************************)
(* Bounds of the model.                                                    *)
(***************************************************************************)
\* int64_t is scaled to the interval SeedMin..SeedMax (INT64_MIN..INT64_MAX).
SeedMax == 4
SeedMin == -SeedMax - 1
\* MAX_THREADS scaled for the interleaving model (the partition arithmetic is
\* checked with the real MAX_THREADS under PartSpec).
ThreadCap == 2
\* RESULT_CHECK_INTERVAL (0x1000) scaled to the model's range sizes.
CheckInterval == 2
\* largest request.max_results drawn (the validator keeps it in 1..MAX_RESULTS)
MaxRes == 2
\* largest number of seeds whose terrain the oracle reports as viable: one
\* more than fits a result
MaxFertile == MaxRes + 1
\* cap of a worker's local scan counter (it is unbounded once seed++ wraps)
MaxScan == 12
\* INT64_MAX of the partition arithmetic checked under PartSpec and of the
\* validator checked under ValidSpec
PartMax == 40
\* the validator's range limit 1000000000 scaled to that integer type
RangeCap == 3
\* INT_MAX of the validator's casts to int, scaled: above MAX_RESULTS and
\* below INT64_MAX
IntMax == 12
\* RATE_LIMIT_WINDOW (60 seconds) and RATE_LIMIT_MAX_REQS (10) scaled
RateWindow == 3
RateMaxReqs == 2
\* the last second of the clock, the number of calls of rate_limiter_check
\* made, and the number of threads that call it
ClockMax == 3
MaxCalls == 4
RateThreads == 2

(***************************************************************************)
(* Program constants.                                                      *)
(***************************************************************************)
MAX_THREADS == 16
MAX_RESULTS == 10
MAX_STRUCT_QUERIES == 16
INT_MAX == 2147483647
RATE_TABLE_SIZE == 256
MC_UNDEF == 0
DIM_NETHER == -1
DIM_OVERWORLD == 0
plains == 1
desert == 2
nether_wastes == 8

SeedSpace == SeedMin..SeedMax

\* C integer division (truncation toward zero), b > 0
CDiv(a, b) == IF a >= 0 THEN a \div b ELSE -((-a) \div b)

RECURSIVE BitAnd(_, _)
\* a & b for a, b >= 0
BitAnd(a, b) ==
    IF a = 0 \/ b = 0 THEN 0
    ELSE (IF a % 2 = 1 /\ b % 2 = 1 THEN 1 ELSE 0) + 2 * BitAnd(a \div 2, b \div 2)

(***************************************************************************)
(* The world-generation oracle.  Its code (finders.c, generator.c) is not  *)
(* among the sources; it is modelled from the specification's section 4.A  *)
(* as deterministic functions of their arguments.  fertile, drawn by Init, *)
(* is the set of seeds whose terrain can host a structure.                 *)
(***************************************************************************)
VARIABLES fertile

\* structureConfig(tag, version): absent (present = FALSE) when the structure
\* does not exist in the version.
getStructureConfig(type, mc) ==
    CASE type = "Village"  -> [present |-> TRUE, regionSize |-> 32, chunkRange |-> 24, dim |-> DIM_OVERWORLD]
      [] type = "Fortress" -> [present |-> TRUE, regionSize |-> 27, chunkRange |-> 23, dim |-> DIM_NETHER]
      [] type = "Bastion"  -> [present |-> mc >= 16, regionSize |-> 27, chunkRange |-> 23, dim |-> DIM_NETHER]
      [] OTHER             -> [present |-> FALSE, regionSize |-> 1, chunkRange |-> 1, dim |-> DIM_OVERWORLD]

Salt(type) == CASE type = "Village" -> 3 [] type = "Fortress" -> 7 [] OTHER -> 11

\* structurePosition(tag, version, seed, rx, rz): one candidate per region or
\* absent; a deterministic function of its arguments.
PosAt(type, sconf, h, rx, rz) ==
    [present |-> sconf.present /\ (type = "Village" \/ h % 4 # 1),
     x |-> (rx * sconf.regionSize + ((7 * h + 2) % sconf.chunkRange)) * 16,
     z |-> (rz * sconf.regionSize + ((11 * h + 5) % sconf.chunkRange)) * 16]

getStructurePos(type, mc, seed, rx, rz) ==
    PosAt(type, getStructureConfig(type, mc),
          5 * seed + 3 * rx + 7 * rz + Salt(type), rx, rz)

\* viableStructurePosition(generator, tag, x, z): needs the generator to be
\* configured for the overworld of the seed.
isViableStructurePos(type, g, x, z) ==
    g.dim = DIM_OVERWORLD /\ g.seed \in fertile

\* biomeAt(generator, scale, x, y, z)
getBiomeAt(g, scale, x, y, z) ==
    IF g.dim = DIM_NETHER THEN nether_wastes
    ELSE IF (2 * g.seed + x \div 4 + z \div 4) % 5 = 0 THEN plains ELSE desert

\* configureGenerator(gen, dimension, seed)
applySeed(g, dim, seed) == [dim |-> dim, seed |-> seed]

(***************************************************************************)
(* The predicate evaluator: the body of the worker's loop over the         *)
(* structure queries.                                                      *)
(***************************************************************************)
\* Faulty variant of check_biome_filter: the generator is left in the
\* structure's dimension.
check_biome_filter_no_restore(g, sq, mc_version, seed, pos) ==
    IF sq.biome < 0 THEN [ret |-> TRUE, g |-> g]
    ELSE LET sconf    == getStructureConfig(sq.type, mc_version)
             g1       == applySeed(g, sconf.dim, seed)
             biome_at == getBiomeAt(g1, 4, pos.x \div 4, 15, pos.z \div 4)
         IN  [ret |-> biome_at = sq.biome, g |-> g1]

\* Returns [ret, g]: ret is the C return value, g the generator afterwards.
check_biome_filter(g, sq, mc_version, seed, pos) ==
    IF sq.biome < 0 THEN [ret |-> TRUE, g |-> g]
    ELSE LET sconf    == getStructureConfig(sq.type, mc_version)
             g1       == applySeed(g, sconf.dim, seed)
             biome_at == getBiomeAt(g1, 4, pos.x \div 4, 15, pos.z \div 4)
             g2       == applySeed(g1, DIM_OVERWORLD, seed)
         IN  [ret |-> biome_at = sq.biome, g |-> g2]

\* The checks made on the candidate position of a region, once
\* getStructurePos has reported pos.
PosCheck(g, sq, mc_version, seed, pos) ==
    IF ~pos.present THEN [ret |-> FALSE, g |-> g]
    ELSE IF pos.x * pos.x + pos.z * pos.z > sq.max_distance * sq.max_distance
         THEN [ret |-> FALSE, g |-> g]
    ELSE IF ~isViableStructurePos(sq.type, g, pos.x, pos.z) THEN [ret |-> FALSE, g |-> g]
    ELSE check_biome_filter(g, sq, mc_version, seed, pos)

\* One iteration of the inner region loops: the checks of region (rx, rz).
RegionCheck(g, sq, mc_version, seed, rx, rz) ==
    PosCheck(g, sq, mc_version, seed, getStructurePos(sq.type, mc_version, seed, rx, rz))

RECURSIVE RegionLoop(_, _, _, _, _, _, _)
\* after the checks of region (rx, rz) gave r: found ends both loops, else rz++
RegionNext(r, sq, mc_version, seed, max_reg, rx, rz) ==
    IF r.ret THEN r
    ELSE RegionLoop(r.g, sq, mc_version, seed, max_reg, rx, rz + 1)

\* for (rx = -max_reg; rx <= max_reg && !found; rx++)
\*   for (rz = -max_reg; rz <= max_reg && !found; rz++)
\* entered at (rx, rz) with found = 0; returns [ret |-> found, g].
RegionLoop(g, sq, mc_version, seed, max_reg, rx, rz) ==
    IF rx > max_reg THEN [ret |-> FALSE, g |-> g]
    ELSE IF rz > max_reg THEN RegionLoop(g, sq, mc_version, seed, max_reg, rx + 1, -max_reg)
    ELSE RegionNext(RegionCheck(g, sq, mc_version, seed, rx, rz),
                    sq, mc_version, seed, max_reg, rx, rz)

\* Faulty variant of QueryScan: a structure without a config in the version
\* counts as found.
QueryScan_absent_found(g, sq, mc_version, seed) ==
    LET sconf == getStructureConfig(sq.type, mc_version)
    IN  IF ~sconf.present THEN [ret |-> TRUE, g |-> g]
        ELSE LET region_blocks == sconf.regionSize * 16
                 max_reg       == CDiv(sq.max_distance, region_blocks) + 2
             IN  RegionLoop(g, sq, mc_version, seed, max_reg, -max_reg, -max_reg)

\* The scan of one structure query: [ret |-> found, g], or ret = FALSE when
\* the structure has no config in the version.
QueryScan(g, sq, mc_version, seed) ==
    LET sconf == getStructureConfig(sq.type, mc_version)
    IN  IF ~sconf.present THEN [ret |-> FALSE, g |-> g]
        ELSE LET region_blocks == sconf.regionSize * 16
                 max_reg       == CDiv(sq.max_distance, region_blocks) + 2
             IN  RegionLoop(g, sq, mc_version, seed, max_reg, -max_reg, -max_reg)

RECURSIVE StructLoop(_, _, _, _)
\* Faulty variant of StructNext: the loop goes through every query and valid
\* is what the last one gave.
StructNext_overwrite(r, rq, seed, s) ==
    IF s = Len(rq.structures) THEN r
    ELSE StructLoop(r.g, rq, seed, s + 1)

\* after the scan of query s gave r: not found ends the loop with valid = 0
StructNext(r, rq, seed, s) ==
    IF ~r.ret THEN r
    ELSE StructLoop(r.g, rq, seed, s + 1)

\* for (s = 0; s < num_structures && valid; s++), entered with valid = 1 at
\* the (1-based) index s; returns [ret |-> valid, g].
StructLoop(g, rq, seed, s) ==
    IF s > Len(rq.structures) THEN [ret |-> TRUE, g |-> g]
    ELSE StructNext(QueryScan(g, rq.structures[s], rq.mc_version, seed), rq, seed, s)

\* applySeed(&g, DIM_OVERWORLD, seed) followed by the structure loop.
tw_scan(rq, seed, g) == StructLoop(applySeed(g, DIM_OVERWORLD, seed), rq, seed, 1)
stw_scan(rq, seed, g) == StructLoop(applySeed(g, DIM_OVERWORLD, seed), rq, seed, 1)

(***************************************************************************)
(* The state of one service session: a validated request, the call being   *)
(* served (batched or streaming) and its coordinator and workers.          *)
(***************************************************************************)
VARIABLES
    conn,           \* the connection being served and what was sent on it
    rl,             \* RateLimiter.entries
    clock,          \* time(NULL)
    caller,         \* the threads inside rate_limiter_check
    granted,        \* history: the calls rate_limiter_check allowed
    body,           \* the fields of the JSON payload that parse_request reads
    errmsg,         \* *errmsg of parse_request
    req,            \* SearchRequest, shared read-only
    build,          \* what the build makes of the overflow of seed++
    call,           \* the entry point being served
    run,            \* 1 for the first call on req, 2 for the second
    prev,           \* what the first call handed back
    cpc,            \* the coordinator's position
    nthreads,       \* number of workers spawned
    args,           \* ThreadArg / StreamThreadArg of each worker
    result,         \* SearchResult (batched)
    found_total,    \* shared count of streamed seeds
    scanned_total,  \* shared count of scanned seeds (streaming)
    scanned_out,    \* *scanned_out
    delivered,      \* the seeds passed to on_seed, in order
    mutex,          \* NoOwner or the worker holding the mutex
    wk              \* each worker's position and locals

vars == <<conn, rl, clock, caller, granted, body, errmsg, fertile, req, build, call, run, prev, cpc, nthreads, args, result,
          found_total, scanned_total, scanned_out, delivered, mutex, wk>>

MC_1_15 == 15
MC_1_16_5 == 16
NoOwner == -1
\* the generator's seed before the first applySeed
NoSeed == SeedMin - 1

\* no payload: the request is already parsed, or handed over by a direct call
NoBody == <<>>
NoError == "none"

\* The engine called directly: no connection, the rate limiter untouched.
NoConn == [kind |-> "none"]

\* A connection: kind is "http" (POST /search) or "ws" (GET /search/stream
\* after the upgrade); frame tells whether ws_recv_frame can read the
\* client's first frame; error is WsSendCtx.error; sent lists what send()
\* and MHD_queue_response took, in order; lost counts the sends that failed.
NewConn(kind, frame) ==
    [kind |-> kind, frame |-> frame, error |-> 0, sent |-> <<>>, lost |-> 0]

\* the outcomes of one send() on the socket: it may fail at any call
SendOutcomes(c) == IF c.kind = "ws" THEN BOOLEAN ELSE {TRUE}

\* ws_send_text and ws_send_close: the frame f is sent iff send() succeeds
ws_send(c, f, ok) ==
    IF ok THEN [c EXCEPT !.sent = Append(@, f)] ELSE [c EXCEPT !.lost = @ + 1]

\* Faulty variant of ws_on_seed: the error flag is not consulted.
ws_on_seed_retry(c, seed, ok) ==
    IF ok THEN ws_send(c, [t |-> "seed", v |-> seed], ok)
    ELSE [ws_send(c, [t |-> "seed", v |-> seed], ok) EXCEPT !.error = 1]

\* ws_on_seed: nothing is sent once a send has failed
ws_on_seed(c, seed, ok) ==
    IF c.error # 0 THEN c
    ELSE IF ok THEN ws_send(c, [t |-> "seed", v |-> seed], ok)
    ELSE [ws_send(c, [t |-> "seed", v |-> seed], ok) EXCEPT !.error = 1]

\* targ->on_seed(seed, targ->cb_userdata): ws_on_seed on a WebSocket
\* connection; a direct caller's callback is recorded in delivered alone
on_seed(c, seed, ok) == IF c.kind = "ws" THEN ws_on_seed(c, seed, ok) ELSE c
NoFrontEnd ==
    /\ conn = NoConn
    /\ rl = <<>>
    /\ clock = 0
    /\ caller = <<>>
    /\ granted = <<>>

\* int64_t arithmetic that wraps into lo..hi on overflow
WrapTo(x, hi) == ((x + hi + 1) % (2 * hi + 2)) - hi - 1

\* seed++: at INT64_MAX the increment overflows.  A build with wrapping
\* arithmetic (-fwrapv, or the plain add instruction) continues at INT64_MIN;
\* a build that relies on the absence of overflow leaves the loop as though
\* seed had become larger than every int64.
Builds == {"wrap", "nowrap"}
Incr(seed, b) ==
    IF seed < SeedMax THEN seed + 1
    ELSE IF b = "wrap" THEN SeedMin ELSE SeedMax + 1

QueryLists ==
    { << [type |-> "Village", max_distance |-> 500, biome |-> plains],
         [type |-> "Fortress", max_distance |-> 400, biome |-> -1] >> }

\* Validated requests (parse_request).  Init draws the ranges that end at 0
\* with up to SeedMax seeds, the empty range [1, 0] among them, and the ranges
\* that end at INT64_MAX with one or two seeds.
Requests ==
    { [mc_version |-> MC_1_16_5, seed_start |-> s, seed_end |-> e,
       max_results |-> m, structures |-> q] :
         e \in {0, SeedMax}, s \in SeedSpace, m \in {1, MaxRes}, q \in QueryLists }

ZeroResult == [seeds |-> <<>>, count |-> 0, scanned |-> 0]
NoPrev == [call |-> "none", seeds |-> <<>>, scanned |-> 0]
Calls == {"search_seeds", "search_seeds_stream"}

\* The seeds a worker of the request can reach: its range, and INT64_MIN when
\* the range ends at INT64_MAX (where seed++ overflows).
Reachable(rq) ==
    (rq.seed_start..rq.seed_end) \cup (IF rq.seed_end = SeedMax THEN {SeedMin} ELSE {})

\* The terrain of the seeds no worker reaches is left barren.
Worlds(rq) == {S \in SUBSET Reachable(rq) : Cardinality(S) <= MaxFertile}

Init ==
    /\ req \in {r \in Requests :
                  /\ r.seed_end - r.seed_start + 1 \in 0..SeedMax
                  /\ r.seed_end = SeedMax => r.seed_start >= SeedMax - 1}
    /\ fertile \in Worlds(req)
    /\ build \in (IF req.seed_end = SeedMax THEN Builds ELSE {"wrap"})
    /\ call \in Calls
    /\ run = 1
    /\ prev = NoPrev
    /\ cpc = "entry"
    /\ nthreads = 0
    /\ args = <<>>
    /\ result = ZeroResult
    /\ found_total = 0
    /\ scanned_total = 0
    /\ scanned_out = -1
    /\ delivered = <<>>
    /\ mutex = NoOwner
    /\ wk = <<>>
    /\ body = NoBody
    /\ errmsg = NoError
    /\ NoFrontEnd

(***************************************************************************)
(* The coordinators.                                                       *)
(***************************************************************************)
\* int64_t total = req->seed_end - req->seed_start + 1
sr_total(rq, hi) == WrapTo(rq.seed_end - rq.seed_start + 1, hi)
\* the clamped thread count
sr_nthreads(total, cap) == IF total < cap THEN total ELSE cap
\* args[i].seed_start and args[i].seed_end of the creation loop
sr_args(rq, total, n) ==
    LET chunk == total \div n
    IN  [i \in 0..(n - 1) |->
            LET st == rq.seed_start + i * chunk
            IN  [seed_start |-> st,
                 seed_end   |-> IF i = n - 1 THEN rq.seed_end ELSE st + chunk - 1]]

\* Faulty variant of LoopTop: the done state is consulted half as often.
LoopTop_sparse(w, a) ==
    [w EXCEPT !.pc =
        IF w.seed <= a.seed_end
        THEN IF BitAnd(w.local_scanned, 2 * CheckInterval - 1) = 0
             THEN "chk_lock" ELSE "scan"
        ELSE "fin_lock"]

\* The top of the worker's loop: the loop condition seed <= targ->seed_end and
\* the test of the check interval decide where the worker synchronises next.
LoopTop(w, a) ==
    [w EXCEPT !.pc =
        IF w.seed <= a.seed_end
        THEN IF BitAnd(w.local_scanned, CheckInterval - 1) = 0
             THEN "chk_lock" ELSE "scan"
        ELSE "fin_lock"]

\* a worker right after pthread_create: setupGenerator, local_scanned = 0,
\* seed = seed_start.  over is a history of the worker: how many of the seeds
\* it counted into local_scanned were counted while the result was full.
NewWorker(a) ==
    LoopTop([pc |-> "loop", seed |-> a.seed_start, local_scanned |-> 0,
             g |-> [dim |-> DIM_OVERWORLD, seed |-> NoSeed], over |-> 0], a)

Spawn(cap, hi) ==
    LET total == sr_total(req, hi)
        n     == sr_nthreads(total, cap)
        a     == sr_args(req, total, n)
    IN  /\ nthreads' = n
        /\ args' = a
        /\ wk' = [i \in 0..(n - 1) |-> NewWorker(a[i])]
        /\ mutex' = NoOwner

\* search_seeds up to the end of the creation loop, with MAX_THREADS = cap and
\* INT64_MAX = hi
search_seeds_on(cap, hi) ==
    /\ cpc = "entry" /\ call = "search_seeds"
    /\ IF sr_total(req, hi) <= 0
       THEN /\ cpc' = "returned"
            /\ UNCHANGED <<nthreads, args, wk, mutex>>
       ELSE /\ Spawn(cap, hi)
            /\ cpc' = "join"
    /\ UNCHANGED <<conn, rl, clock, caller, granted, body, errmsg, fertile, req, build, call, run, prev, result, found_total,
                   scanned_total, scanned_out, delivered>>

search_seeds == search_seeds_on(ThreadCap, SeedMax)

AllExited == \A i \in DOMAIN wk : wk[i].pc = "exit"

\* Faulty variant of search_seeds_join: the coordinator returns without
\* joining its workers.
search_seeds_join_nowait ==
    /\ cpc = "join" /\ call = "search_seeds"
    /\ cpc' = "returned"
    /\ UNCHANGED <<conn, rl, clock, caller, granted, body, errmsg, fertile, req, build, call, run, prev, nthreads, args, result,
                   found_total, scanned_total, scanned_out, delivered, mutex, wk>>

\* the join loop, pthread_mutex_destroy, return
search_seeds_join ==
    /\ cpc = "join" /\ call = "search_seeds"
    /\ AllExited
    /\ cpc' = "returned"
    /\ UNCHANGED <<conn, rl, clock, caller, granted, body, errmsg, fertile, req, build, call, run, prev, nthreads, args, result,
                   found_total, scanned_total, scanned_out, delivered, mutex, wk>>

\* search_seeds_stream up to the end of the creation loop
search_seeds_stream_on(cap, hi) ==
    /\ cpc = "entry" /\ call = "search_seeds_stream"
    /\ IF sr_total(req, hi) <= 0
       THEN /\ scanned_out' = 0
            /\ cpc' = "returned"
            /\ UNCHANGED <<nthreads, args, wk, mutex, found_total, scanned_total>>
       ELSE /\ Spawn(cap, hi)
            /\ found_total' = 0
            /\ scanned_total' = 0
            /\ cpc' = "join"
            /\ UNCHANGED scanned_out
    /\ UNCHANGED <<conn, rl, clock, caller, granted, body, errmsg, fertile, req, build, call, run, prev, result, delivered>>

search_seeds_stream == search_seeds_stream_on(ThreadCap, SeedMax)

\* the join loop, pthread_mutex_destroy, *scanned_out = scanned_total
search_seeds_stream_join ==
    /\ cpc = "join" /\ call = "search_seeds_stream"
    /\ AllExited
    /\ scanned_out' = scanned_total
    /\ cpc' = "returned"
    /\ UNCHANGED <<conn, rl, clock, caller, granted, body, errmsg, fertile, req, build, call, run, prev, nthreads, args, result,
                   found_total, scanned_total, delivered, mutex, wk>>

(***************************************************************************)
(* thread_worker: one action per step between two synchronisation points.  *)
(***************************************************************************)
Workers == DOMAIN wk
Set(i, f, v) == [wk EXCEPT ![i][f] = v]

\* where the loop goes after an iteration that did not break: seed++ and back
\* to the top of the loop
NextIter(w, a) == LoopTop([w EXCEPT !.seed = Incr(w.seed, build)], a)

\* the history of a worker that counts a seed while the result is full or not
Counted(w, full) == [w EXCEPT !.over = IF full THEN @ + 1 ELSE @]

\* the worker after local_scanned++ and the structure loop, whose outcome is
\* r = [ret |-> valid, g]: a valid seed is published, an invalid one skipped
AfterScan(w, a, r) ==
    LET w1 == [w EXCEPT !.local_scanned = @ + 1, !.g = r.g]
    IN  IF r.ret THEN [w1 EXCEPT !.pc = "pub_lock"] ELSE NextIter(w1, a)

\* pthread_mutex_lock before the periodic check
tw_chk_lock(i) ==
    /\ call = "search_seeds" /\ wk[i].pc = "chk_lock"
    /\ mutex = NoOwner
    /\ mutex' = i
    /\ wk' = Set(i, "pc", "chk")
    /\ UNCHANGED <<conn, rl, clock, caller, granted, body, errmsg, fertile, req, build, call, run, prev, cpc, nthreads, args, result,
                   found_total, scanned_total, scanned_out, delivered>>

\* Faulty variant of tw_done: the search stops one result early.
tw_done_early(res, rq) == res.count >= rq.max_results - 1

\* Faulty variant of tw_done: a full result does not end the search.
tw_done_never(res, rq) == res.count > rq.max_results

\* int done = targ->result->count >= req->max_results
tw_done(res, rq) == res.count >= rq.max_results

\* Faulty variant of tw_chk: the periodic check does not unlock.
tw_chk_keep(i) ==
    /\ call = "search_seeds" /\ wk[i].pc = "chk"
    /\ LET done == tw_done(result, req)
       IN  wk' = Set(i, "pc", IF done THEN "fin_lock" ELSE "scan")
    /\ UNCHANGED <<conn, rl, clock, caller, granted, body, errmsg, fertile, req, build, call, run, prev, cpc, nthreads, args, result,
                   found_total, scanned_total, scanned_out, delivered, mutex>>

\* done = count >= max_results; unlock; if (done) break
tw_chk(i) ==
    /\ call = "search_seeds" /\ wk[i].pc = "chk"
    /\ LET done == tw_done(result, req)
       IN  wk' = Set(i, "pc", IF done THEN "fin_lock" ELSE "scan")
    /\ mutex' = NoOwner
    /\ UNCHANGED <<conn, rl, clock, caller, granted, body, errmsg, fertile, req, build, call, run, prev, cpc, nthreads, args, result,
                   found_total, scanned_total, scanned_out, delivered>>

\* local_scanned++, applySeed and the structure loop; an invalid seed goes on
\* with seed++
tw_eval(i) ==
    /\ call = "search_seeds" /\ wk[i].pc = "scan"
    /\ wk[i].local_scanned < MaxScan
    /\ wk' = [wk EXCEPT ![i] = AfterScan(Counted(wk[i], result.count >= req.max_results),
                                        args[i], tw_scan(req, wk[i].seed, wk[i].g))]
    /\ UNCHANGED <<conn, rl, clock, caller, granted, body, errmsg, fertile, req, build, call, run, prev, cpc, nthreads, args, result,
                   found_total, scanned_total, scanned_out, delivered, mutex>>

\* pthread_mutex_lock of a valid seed
tw_pub_lock(i) ==
    /\ call = "search_seeds" /\ wk[i].pc = "pub_lock"
    /\ mutex = NoOwner
    /\ mutex' = i
    /\ wk' = Set(i, "pc", "pub")
    /\ UNCHANGED <<conn, rl, clock, caller, granted, body, errmsg, fertile, req, build, call, run, prev, cpc, nthreads, args, result,
                   found_total, scanned_total, scanned_out, delivered>>

\* Faulty variant of tw_store: the store without its capacity test.
tw_store_unchecked(res, rq, seed) ==
    [res EXCEPT !.seeds = Append(@, seed), !.count = @ + 1]

\* the result after: if (count < max_results) seeds[count++] = seed
tw_store(res, rq, seed) ==
    IF res.count < rq.max_results
    THEN [res EXCEPT !.seeds = Append(@, seed), !.count = @ + 1]
    ELSE res

\* store the seed if there is room, done = count >= max_results, unlock,
\* break if done
tw_pub(i) ==
    /\ call = "search_seeds" /\ wk[i].pc = "pub"
    /\ result' = tw_store(result, req, wk[i].seed)
    /\ mutex' = NoOwner
    /\ IF tw_done(result', req)
       THEN wk' = Set(i, "pc", "fin_lock")
       ELSE wk' = [wk EXCEPT ![i] = NextIter(wk[i], args[i])]
    /\ UNCHANGED <<conn, rl, clock, caller, granted, body, errmsg, fertile, req, build, call, run, prev, cpc, nthreads, args,
                   found_total, scanned_total, scanned_out, delivered>>

\* Faulty variant of tw_fin_lock: the lock is taken without waiting for it.
tw_fin_lock_nowait(i) ==
    /\ call = "search_seeds" /\ wk[i].pc = "fin_lock"
    /\ mutex' = i
    /\ wk' = Set(i, "pc", "fin")
    /\ UNCHANGED <<conn, rl, clock, caller, granted, body, errmsg, fertile, req, build, call, run, prev, cpc, nthreads, args, result,
                   found_total, scanned_total, scanned_out, delivered>>

\* pthread_mutex_lock after the loop
tw_fin_lock(i) ==
    /\ call = "search_seeds" /\ wk[i].pc = "fin_lock"
    /\ mutex = NoOwner
    /\ mutex' = i
    /\ wk' = Set(i, "pc", "fin")
    /\ UNCHANGED <<conn, rl, clock, caller, granted, body, errmsg, fertile, req, build, call, run, prev, cpc, nthreads, args, result,
                   found_total, scanned_total, scanned_out, delivered>>

\* Faulty variant of tw_fin: the worker returns without adding its count.
tw_fin_no_add(i) ==
    /\ call = "search_seeds" /\ wk[i].pc = "fin"
    /\ mutex' = NoOwner
    /\ wk' = Set(i, "pc", "exit")
    /\ UNCHANGED <<conn, rl, clock, caller, granted, body, errmsg, fertile, req, build, call, run, prev, cpc, nthreads, args, result,
                   found_total, scanned_total, scanned_out, delivered>>

\* result->scanned += local_scanned; unlock; return
tw_fin(i) ==
    /\ call = "search_seeds" /\ wk[i].pc = "fin"
    /\ result' = [result EXCEPT !.scanned = @ + wk[i].local_scanned]
    /\ mutex' = NoOwner
    /\ wk' = Set(i, "pc", "exit")
    /\ UNCHANGED <<conn, rl, clock, caller, granted, body, errmsg, fertile, req, build, call, run, prev, cpc, nthreads, args,
                   found_total, scanned_total, scanned_out, delivered>>

\* a step of any of the workers of search_seeds
thread_worker ==
    \/ \E i \in Workers : tw_chk_lock(i)
    \/ \E i \in Workers : tw_chk(i)
    \/ \E i \in Workers : tw_eval(i)
    \/ \E i \in Workers : tw_pub_lock(i)
    \/ \E i \in Workers : tw_pub(i)
    \/ \E i \in Workers : tw_fin_lock(i)
    \/ \E i \in Workers : tw_fin(i)

(***************************************************************************)
(* stream_thread_worker                                                    *)
(***************************************************************************)
\* pthread_mutex_lock before the periodic check
stw_chk_lock(i) ==
    /\ call = "search_seeds_stream" /\ wk[i].pc = "chk_lock"
    /\ mutex = NoOwner
    /\ mutex' = i
    /\ wk' = Set(i, "pc", "chk")
    /\ UNCHANGED <<conn, rl, clock, caller, granted, body, errmsg, fertile, req, build, call, run, prev, cpc, nthreads, args, result,
                   found_total, scanned_total, scanned_out, delivered>>

\* Faulty variant of stw_done: the stream stops one result early.
stw_done_early(found, rq) == found >= rq.max_results - 1

\* int done = *targ->found_total >= req->max_results
stw_done(found, rq) == found >= rq.max_results

\* done = *found_total >= max_results; unlock; if (done) break
stw_chk(i) ==
    /\ call = "search_seeds_stream" /\ wk[i].pc = "chk"
    /\ LET done == stw_done(found_total, req)
       IN  wk' = Set(i, "pc", IF done THEN "fin_lock" ELSE "scan")
    /\ mutex' = NoOwner
    /\ UNCHANGED <<conn, rl, clock, caller, granted, body, errmsg, fertile, req, build, call, run, prev, cpc, nthreads, args, result,
                   found_total, scanned_total, scanned_out, delivered>>

\* local_scanned++, applySeed and the structure loop
stw_eval(i) ==
    /\ call = "search_seeds_stream" /\ wk[i].pc = "scan"
    /\ wk[i].local_scanned < MaxScan
    /\ wk' = [wk EXCEPT ![i] = AfterScan(Counted(wk[i], found_total >= req.max_results),
                                        args[i], stw_scan(req, wk[i].seed, wk[i].g))]
    /\ UNCHANGED <<conn, rl, clock, caller, granted, body, errmsg, fertile, req, build, call, run, prev, cpc, nthreads, args, result,
                   found_total, scanned_total, scanned_out, delivered, mutex>>

\* Faulty variant of stw_pub_lock: the lock is taken without waiting for it.
stw_pub_lock_nowait(i) ==
    /\ call = "search_seeds_stream" /\ wk[i].pc = "pub_lock"
    /\ mutex' = i
    /\ wk' = Set(i, "pc", "pub")
    /\ UNCHANGED <<conn, rl, clock, caller, granted, body, errmsg, fertile, req, build, call, run, prev, cpc, nthreads, args, result,
                   found_total, scanned_total, scanned_out, delivered>>

\* pthread_mutex_lock of a valid seed
stw_pub_lock(i) ==
    /\ call = "search_seeds_stream" /\ wk[i].pc = "pub_lock"
    /\ mutex = NoOwner
    /\ mutex' = i
    /\ wk' = Set(i, "pc", "pub")
    /\ UNCHANGED <<conn, rl, clock, caller, granted, body, errmsg, fertile, req, build, call, run, prev, cpc, nthreads, args, result,
                   found_total, scanned_total, scanned_out, delivered>>

\* Faulty variant of stw_room: the callback is invoked without the room test.
stw_room_always(found, rq) == found >= 0

\* whether the callback is invoked: if (*found_total < max_results)
stw_room(found, rq) == found < rq.max_results

\* under the mutex: either on_seed is entered (it returns in stw_cb_return),
\* or there is no room: done is computed, the mutex released, break if done
stw_pub(i) ==
    /\ call = "search_seeds_stream" /\ wk[i].pc = "pub"
    /\ IF stw_room(found_total, req)
       THEN /\ delivered' = Append(delivered, wk[i].seed)
            /\ \E ok \in SendOutcomes(conn) : conn' = on_seed(conn, wk[i].seed, ok)
            /\ wk' = Set(i, "pc", "in_cb")
            /\ UNCHANGED mutex
       ELSE /\ mutex' = NoOwner
            /\ IF stw_done(found_total, req)
               THEN wk' = Set(i, "pc", "fin_lock")
               ELSE wk' = [wk EXCEPT ![i] = NextIter(wk[i], args[i])]
            /\ UNCHANGED <<delivered, conn>>
    /\ UNCHANGED <<rl, clock, caller, granted, body, errmsg, fertile, req, build, call, run, prev, cpc, nthreads, args, result,
                   found_total, scanned_total, scanned_out>>

\* on_seed returns: (*found_total)++, done, unlock, break if done
stw_cb_return(i) ==
    /\ call = "search_seeds_stream" /\ wk[i].pc = "in_cb"
    /\ found_total' = found_total + 1
    /\ mutex' = NoOwner
    /\ IF stw_done(found_total', req)
       THEN wk' = Set(i, "pc", "fin_lock")
       ELSE wk' = [wk EXCEPT ![i] = NextIter(wk[i], args[i])]
    /\ UNCHANGED <<conn, rl, clock, caller, granted, body, errmsg, fertile, req, build, call, run, prev, cpc, nthreads, args, result,
                   scanned_total, scanned_out, delivered>>

\* pthread_mutex_lock after the loop
stw_fin_lock(i) ==
    /\ call = "search_seeds_stream" /\ wk[i].pc = "fin_lock"
    /\ mutex = NoOwner
    /\ mutex' = i
    /\ wk' = Set(i, "pc", "fin")
    /\ UNCHANGED <<conn, rl, clock, caller, granted, body, errmsg, fertile, req, build, call, run, prev, cpc, nthreads, args, result,
                   found_total, scanned_total, scanned_out, delivered>>

\* Faulty variant of stw_fin: the worker returns without adding its count.
stw_fin_no_add(i) ==
    /\ call = "search_seeds_stream" /\ wk[i].pc = "fin"
    /\ mutex' = NoOwner
    /\ wk' = Set(i, "pc", "exit")
    /\ UNCHANGED <<conn, rl, clock, caller, granted, body, errmsg, fertile, req, build, call, run, prev, cpc, nthreads, args, result,
                   found_total, scanned_total, scanned_out, delivered>>

\* *scanned_total += local_scanned; unlock; return
stw_fin(i) ==
    /\ call = "search_seeds_stream" /\ wk[i].pc = "fin"
    /\ scanned_total' = scanned_total + wk[i].local_scanned
    /\ mutex' = NoOwner
    /\ wk' = Set(i, "pc", "exit")
    /\ UNCHANGED <<conn, rl, clock, caller, granted, body, errmsg, fertile, req, build, call, run, prev, cpc, nthreads, args, result,
                   found_total, scanned_out, delivered>>

\* a step of any of the workers of search_seeds_stream
stream_thread_worker ==
    \/ \E i \in Workers : stw_chk_lock(i)
    \/ \E i \in Workers : stw_chk(i)
    \/ \E i \in Workers : stw_eval(i)
    \/ \E i \in Workers : stw_pub_lock(i)
    \/ \E i \in Workers : stw_pub(i)
    \/ \E i \in Workers : stw_cb_return(i)
    \/ \E i \in Workers : stw_fin_lock(i)
    \/ \E i \in Workers : stw_fin(i)

(***************************************************************************)
(* The service serves a second call on the same request once the first     *)
(* (batched) one has been answered: a fresh zero-initialised result, a     *)
(* fresh callback context.                                                 *)
(***************************************************************************)
second_call ==
    /\ cpc = "returned" /\ run = 1 /\ call = "search_seeds"
    /\ prev' = [call |-> call, seeds |-> result.seeds, scanned |-> result.scanned]
    /\ run' = 2
    /\ call' \in Calls
    /\ cpc' = "entry"
    /\ result' = ZeroResult
    /\ delivered' = <<>>
    /\ scanned_out' = -1
    /\ nthreads' = 0 /\ args' = <<>> /\ wk' = <<>>
    /\ UNCHANGED <<conn, rl, clock, caller, granted, body, errmsg, fertile, req, build, found_total, scanned_total, mutex>>

Next ==
    \/ search_seeds
    \/ search_seeds_join
    \/ search_seeds_stream
    \/ search_seeds_stream_join
    \/ thread_worker
    \/ stream_thread_worker

Spec == Init /\ [][Next]_vars

\* Two calls on the same request, one after the other.
PairNext == Next \/ second_call
PairSpec == Init /\ [][PairNext]_vars

(***************************************************************************)
(* The match predicate of the specification, section 4.B, stated without   *)
(* the loops: a seed matches iff every structure query has a region of the *)
(* square whose candidate is present, in distance, viable and of the       *)
(* requested biome.                                                        *)
(***************************************************************************)
QuerySatisfied(sq, mc, s) ==
    LET sconf   == getStructureConfig(sq.type, mc)
        max_reg == (sq.max_distance \div (sconf.regionSize * 16)) + 2
    IN  /\ sconf.present
        /\ \E rx \in (-max_reg)..max_reg : \E rz \in (-max_reg)..max_reg :
             LET pos == getStructurePos(sq.type, mc, s, rx, rz)
             IN  /\ pos.present
                 /\ pos.x * pos.x + pos.z * pos.z <= sq.max_distance * sq.max_distance
                 /\ isViableStructurePos(sq.type, [dim |-> DIM_OVERWORLD, seed |-> s],
                                         pos.x, pos.z)
                 /\ sq.biome >= 0 =>
                      getBiomeAt([dim |-> sconf.dim, seed |-> s], 4,
                                 pos.x \div 4, 15, pos.z \div 4) = sq.biome

Matches(rq, s) ==
    \A k \in 1..Len(rq.structures) : QuerySatisfied(rq.structures[k], rq.mc_version, s)

InRange(rq, s) == rq.seed_start <= s /\ s <= rq.seed_end
MatchSet(rq) == {s \in rq.seed_start..rq.seed_end : Matches(rq, s)}
Range(q) == {q[k] : k \in 1..Len(q)}
NoDup(q) == \A a, b \in 1..Len(q) : q[a] = q[b] => a = b
Min(a, b) == IF a < b THEN a ELSE b

Batched == call = "search_seeds"
Streaming == call = "search_seeds_stream"
Returned == cpc = "returned"

\* C1: in every state of a batched search the result holds at most
\* request.max_results seeds (count is the length of the stored list).
C1_ResultBounded ==
    Batched => /\ result.count <= req.max_results
               /\ Len(result.seeds) = result.count

\* C1 witness: the result is full while another worker holds a valid seed it
\* is about to publish.
C1_Witness ==
    /\ Batched /\ result.count = req.max_results
    /\ \E i \in Workers : wk[i].pc = "pub"

\* C2: every seed of the result returned by search_seeds lies in
\* [seed_start, seed_end] and satisfies the full query conjunction.
C2_ResultSound ==
    (Batched /\ Returned) =>
        \A s \in Range(result.seeds) : InRange(req, s) /\ Matches(req, s)

\* C3: no seed occurs twice in the result list, and none is delivered twice
\* to the streaming callback.
C3_NoDuplicates == NoDup(result.seeds) /\ NoDup(delivered)

\* C4: when max_results is at least the number of matching seeds of the
\* range, search_seeds returns exactly the set of matching seeds.
C4_Complete ==
    (Batched /\ Returned /\ req.max_results >= Cardinality(MatchSet(req))) =>
        Range(result.seeds) = MatchSet(req)

\* C7: when search_seeds_stream returns, the callback has been invoked
\* min(max_results, number of matching seeds of the range) times.
C7_CallbackCount ==
    (Streaming /\ Returned) =>
        Len(delivered) = Min(req.max_results, Cardinality(MatchSet(req)))

\* A range that ends below INT64_MAX has no seed++ that overflows: there the
\* result is sound, free of duplicates and complete, and the callback count
\* exact.
BelowMaxCorrect ==
    req.seed_end < SeedMax =>
        C2_ResultSound /\ C3_NoDuplicates /\ C4_Complete /\ C7_CallbackCount

C9_CallbackUnderMutex ==
    \A i \in Workers :
        (Streaming /\ wk[i].pc = "in_cb") =>
            /\ mutex = i
            /\ \A j \in Workers \ {i} : wk[j].pc \notin {"in_cb", "chk", "pub"}

\* C9 witness: a callback is executing while another worker waits for the
\* mutex with a valid seed of its own.
C9_Witness ==
    /\ Streaming
    /\ \E i, j \in Workers : i # j /\ wk[i].pc = "in_cb" /\ wk[j].pc = "pub_lock"

\* the workers between a pthread_mutex_lock and its pthread_mutex_unlock: the
\* places where thread_worker and stream_thread_worker read or write
\* result.count, result.seeds, result.scanned, found_total and scanned_total
InCritical == {i \in Workers : wk[i].pc \in {"chk", "pub", "in_cb", "fin"}}

\* at most one worker is between a lock and its unlock, and it is the holder
MutexExclusive ==
    /\ Cardinality(InCritical) <= 1
    /\ \A i \in InCritical : mutex = i
    /\ mutex # NoOwner => mutex \in InCritical

\* a step that changes the shared state of the search while the workers run
\* is a step of the worker that holds the mutex
SharedWriteByHolder ==
    (cpc = "join" /\ <<result, found_total, scanned_total>>' #
                     <<result, found_total, scanned_total>>)
        => /\ mutex \in InCritical
           /\ wk'[mutex] # wk[mutex]
           /\ \A j \in Workers \ {mutex} : wk'[j] = wk[j]

\* C30: while the workers run, every read or write of result.count,
\* result.seeds and result.scanned (search_seeds) or of found_total and
\* scanned_total (search_seeds_stream) is made by a worker that holds the
\* mutex, and at most one worker holds the mutex at a time.
C30_SharedStateSerialised ==
    []MutexExclusive /\ [][SharedWriteByHolder]_vars

\* C30 witness: a worker of search_seeds holds the mutex at a read or write
\* of the result while another worker waits for the mutex with a valid seed.
C30_Witness ==
    /\ Batched /\ cpc = "join"
    /\ \E i, j \in Workers :
          /\ i # j /\ mutex = i /\ wk[i].pc \in {"chk", "pub", "fin"}
          /\ wk[j].pc = "pub_lock"

\* once the coordinator has returned, every worker it spawned has returned
\* from its function (after its final unlock), nobody holds the mutex that was
\* destroyed, and *scanned_out holds the total the workers left
ReturnedAfterWorkers ==
    Returned =>
        /\ AllExited
        /\ mutex = NoOwner
        /\ Streaming => scanned_out = scanned_total

\* after the return no step changes the shared state or moves a worker
QuietAfterReturn ==
    Returned => UNCHANGED <<result, found_total, scanned_total, scanned_out,
                            delivered, mutex, wk>>

\* C31: search_seeds and search_seeds_stream return only after every spawned
\* worker has finished: at the return (mutex destroyed, result handed back,
\* *scanned_out written) every worker has added its local scan count and
\* left, and no worker writes shared state afterwards.
C31_ReturnAfterWorkers ==
    []ReturnedAfterWorkers /\ [][QuietAfterReturn]_vars

\* C31 witness: the coordinator has returned from a search that ran two
\* workers, each of which scanned a seed.
C31_Witness ==
    /\ Returned /\ nthreads = 2
    /\ \A i \in Workers : wk[i].pc = "exit" /\ wk[i].local_scanned > 0

\* the number of loop iterations worker i has started on its way to the seed
\* it is at: the seed a worker is about to evaluate has not been counted yet,
\* the one it has evaluated and is publishing has
Evaluated(i) ==
    IF wk[i].pc \in {"pub_lock", "pub", "in_cb"}
    THEN wk[i].local_scanned - 1 ELSE wk[i].local_scanned

\* worker i is at a seed of its loop: before, in or after its evaluation
AtSeed(i) == wk[i].pc \in {"chk_lock", "chk", "scan", "pub_lock", "pub", "in_cb"}

\* the seeds of the list q that lie in the sub-range of worker i, with their
\* positions
OwnedBy(q, i) ==
    {k \in 1..Len(q) : args[i].seed_start <= q[k] /\ q[k] <= args[i].seed_end}

\* the k-th seed a worker evaluates is subStart + k - 1, a seed of its
\* sub-range
EvalAscending ==
    \A i \in Workers :
        AtSeed(i) =>
            /\ wk[i].seed = args[i].seed_start + Evaluated(i)
            /\ wk[i].seed <= args[i].seed_end

\* the seeds of one worker are in ascending order in the list q, and every
\* seed of q is of some worker's sub-range
AscendingPerWorker(q) ==
    /\ \A k \in 1..Len(q) : \E i \in Workers : k \in OwnedBy(q, i)
    /\ \A i \in Workers : \A a, c \in OwnedBy(q, i) : a < c => q[a] < q[c]

\* C32: each worker evaluates the seeds of its sub-range in strictly ascending
\* order, each at most once, starting at subStart (the k-th seed it evaluates
\* is subStart + k - 1), and the seeds one worker appends to the result or
\* streams are in ascending order among themselves.
C32_AscendingPerWorker ==
    /\ EvalAscending
    /\ AscendingPerWorker(result.seeds)
    /\ AscendingPerWorker(delivered)

\* A range that ends below INT64_MAX has no seed++ that overflows: there
\* every worker goes through its sub-range in ascending order.
AscendingBelowMax == req.seed_end < SeedMax => C32_AscendingPerWorker

\* a worker has published two seeds of its sub-range, in ascending order, in
\* a search with two workers
TwoSeedsOfOneWorker ==
    /\ nthreads = 2 /\ req.seed_end < SeedMax
    /\ \E i \in Workers : Cardinality(OwnedBy(result.seeds, i)) = 2

\* the steps of worker i at the mutex, of either kind of search: the calls of
\* pthread_mutex_lock, the critical sections with their unlock, and the
\* return of the callback
MutexStep(i) ==
    \/ tw_chk_lock(i) \/ tw_chk(i) \/ tw_pub_lock(i) \/ tw_pub(i)
    \/ tw_fin_lock(i) \/ tw_fin(i)
    \/ stw_chk_lock(i) \/ stw_chk(i) \/ stw_pub_lock(i) \/ stw_pub(i)
    \/ stw_cb_return(i) \/ stw_fin_lock(i) \/ stw_fin(i)

\* The search under a scheduler that in the end runs a thread that is inside
\* a critical section or can take the mutex, and with a callback that
\* returns.  Nothing is assumed of the evaluation of a seed.
LiveSpec == Spec /\ \A i \in 0..(ThreadCap - 1) : WF_vars(i \in Workers /\ MutexStep(i))

\* worker i is blocked in a pthread_mutex_lock
Waiting(i) == i \in Workers /\ wk[i].pc \in {"chk_lock", "pub_lock", "fin_lock"}

\* a worker that calls pthread_mutex_lock, evaluates a seed or has returned
\* does not hold the mutex: each acquisition was released before
LockDiscipline ==
    \A i \in Workers :
        wk[i].pc \in {"chk_lock", "pub_lock", "fin_lock", "scan", "exit"} => mutex # i

\* the mutex changes hands only by a lock of a worker that was waiting for it
\* while it was free, and by the unlock of the worker that holds it
MutexHandover ==
    mutex' # mutex =>
        IF mutex = NoOwner
        THEN Waiting(mutex') /\ wk'[mutex'].pc \in {"chk", "pub", "fin"}
        ELSE /\ mutex' = NoOwner
             /\ wk[mutex].pc \in {"chk", "pub", "in_cb", "fin"}
             /\ wk'[mutex] # wk[mutex]
             /\ \A j \in Workers \ {mutex} : wk'[j] = wk[j]

\* the holder releases the mutex, and a worker that waits for it gets it
NoWaitForever ==
    \A i \in 0..(ThreadCap - 1) :
        /\ (mutex = i) ~> (mutex # i)
        /\ Waiting(i) ~> (mutex = i)

\* C39: every acquisition of the mutex by a worker is followed by a release
\* by that worker before it acquires again, leaves its loop or returns; no
\* worker terminates holding the mutex; and no live worker waits for the
\* mutex forever, the streaming callback returning.
C39_MutexDiscipline ==
    []LockDiscipline /\ [][MutexHandover]_vars /\ NoWaitForever

\* C39 witness: a worker of a streaming search adds its scan count under the
\* mutex while the other worker is blocked in the lock of its periodic check.
C39_Witness ==
    /\ Streaming /\ cpc = "join"
    /\ \E i, j \in Workers :
          /\ i # j /\ wk[i].pc = "fin" /\ mutex = i
          /\ wk[j].pc = "chk_lock"

(***************************************************************************)
(* The scan counters.                                                      *)
(***************************************************************************)
RECURSIVE SumScanned(_)
\* the sum of the local scan counts of the workers in S
SumScanned(S) ==
    IF S = {} THEN 0
    ELSE LET i == CHOOSE j \in S : TRUE
         IN  wk[i].local_scanned + SumScanned(S \ {i})

Exited == {i \in Workers : wk[i].pc = "exit"}

\* C11: when search_seeds returns, result.scanned is at most
\* seed_end - seed_start + 1 and at least the number of seeds in the result.
C11_ScannedBounds ==
    (Batched /\ Returned /\ req.seed_start <= req.seed_end) =>
        /\ result.scanned <= req.seed_end - req.seed_start + 1
        /\ result.scanned >= result.count

\* C12: the shared scanned counter is the sum of the local scan counts of the
\* workers that have exited, each added once, so at join time it is the sum
\* over all workers; the streaming coordinator hands that sum to *scanned_out.
C12_ScannedIsSum ==
    /\ Batched => result.scanned = SumScanned(Exited)
    /\ Streaming => scanned_total = SumScanned(Exited)
    /\ Returned => Exited = Workers
    /\ (Streaming /\ Returned) => scanned_out = SumScanned(Workers)

\* C12 witness: a batched search has returned; one worker left its loop by
\* the break of a full result, before the end of its partition, after
\* counting a seed, and another worker counted seeds too.
C12_Witness ==
    /\ Batched /\ Returned
    /\ \E i, j \in Workers :
          /\ i # j
          /\ wk[i].seed <= args[i].seed_end /\ wk[i].local_scanned > 0
          /\ wk[j].local_scanned > 0

RECURSIVE SumOver(_)
\* the number of seeds the workers in S counted while the result was full
SumOver(S) ==
    IF S = {} THEN 0
    ELSE LET i == CHOOSE j \in S : TRUE
         IN  wk[i].over + SumOver(S \ {i})

\* C14 as stated: once the result is full each worker counts at most
\* RESULT_CHECK_INTERVAL - 1 (4095) further seeds, so that all N workers
\* together count at most (RESULT_CHECK_INTERVAL - 1) * N.
C14_OverScanBelowInterval ==
    /\ \A i \in Workers : wk[i].over <= CheckInterval - 1
    /\ SumOver(Workers) <= (CheckInterval - 1) * nthreads

\* C14 amended: once the result is full each worker counts at most
\* RESULT_CHECK_INTERVAL (4096) further seeds, so that all N workers together
\* count at most RESULT_CHECK_INTERVAL * N.
C14_OverScanWithinInterval ==
    /\ \A i \in Workers : wk[i].over <= CheckInterval
    /\ SumOver(Workers) <= CheckInterval * nthreads

\* C14 witness: a worker has left its loop by a break, before the end of its
\* partition, after counting seeds while the result was full.
C14_Witness ==
    \E i \in Workers :
        /\ wk[i].pc = "exit" /\ wk[i].over > 0
        /\ wk[i].seed <= args[i].seed_end

\* Some thread of the program can take a step: the coordinator before the
\* creation loop or with every worker joined, a worker outside a lock call,
\* or a worker at a lock call while the mutex is free.
CanStep ==
    \/ cpc = "entry"
    \/ cpc = "join" /\ AllExited
    \/ \E i \in Workers : wk[i].pc \in {"scan", "chk", "pub", "in_cb", "fin"}
    \/ \E i \in Workers : wk[i].pc \in {"chk_lock", "pub_lock", "fin_lock"}
                             /\ mutex = NoOwner

\* C13: every worker leaves its scan loop after at most
\* subEnd - subStart + 1 iterations (local_scanned counts the iterations that
\* passed the check), and a search that has not returned has a thread that
\* can step, so that under fair scheduling the coordinator returns.
C13_Terminates ==
    /\ \A i \in Workers :
          wk[i].local_scanned <= args[i].seed_end - args[i].seed_start + 1
    /\ Returned \/ CanStep

\* C17: at return the result of search_seeds holds at most
\* min(max_results, seed_end - seed_start + 1) seeds.
C17_CountWithinRange ==
    (Batched /\ Returned) =>
        result.count <= Min(req.max_results, req.seed_end - req.seed_start + 1)

\* A range that ends below INT64_MAX: the scan counters are within the bounds
\* of C11, the result within the bound of C17 and every worker within the
\* iteration bound of C13, with a step to take until the coordinator has
\* returned.
BelowMaxBounded ==
    req.seed_end < SeedMax =>
        C11_ScannedBounds /\ C13_Terminates /\ C17_CountWithinRange

(***************************************************************************)
(* Two calls on the same request (PairSpec): prev is what the first,       *)
(* batched call returned.                                                  *)
(***************************************************************************)
SecondReturned == run = 2 /\ Returned

\* C5 as stated: two runs of search_seeds on the same request return the same
\* set of seeds, whatever max_results is.
C5_SameSetAlways ==
    (SecondReturned /\ Batched) => Range(result.seeds) = Range(prev.seeds)

\* C5 amended: two runs of search_seeds on the same request return the same
\* set of seeds whenever at least one of them returns fewer than max_results
\* seeds.
C5_SameSetUnlessFull ==
    (SecondReturned /\ Batched
        /\ (result.count < req.max_results \/ Len(prev.seeds) < req.max_results)) =>
            Range(result.seeds) = Range(prev.seeds)

\* C5 witness: both runs used two workers and returned the same non-empty,
\* not full result.
C5_Witness ==
    /\ SecondReturned /\ Batched /\ nthreads = ThreadCap
    /\ result.count < req.max_results /\ result.count > 0
    /\ Range(result.seeds) = Range(prev.seeds)

\* C6 as stated: the seeds delivered by search_seeds_stream are, as a
\* multiset, the set returned by search_seeds on the same request.
C6_StreamEqualsBatchAlways ==
    (SecondReturned /\ Streaming) =>
        NoDup(delivered) /\ Range(delivered) = Range(prev.seeds)

\* C6 amended: the seeds delivered by search_seeds_stream are, as a multiset,
\* the set returned by search_seeds on the same request whenever at least
\* one of the two hands back fewer than max_results seeds.
C6_StreamEqualsBatchUnlessFull ==
    (SecondReturned /\ Streaming
        /\ (Len(delivered) < req.max_results \/ Len(prev.seeds) < req.max_results)) =>
            NoDup(delivered) /\ Range(delivered) = Range(prev.seeds)

\* C6 witness: a streaming call with two workers delivered the non-empty,
\* not full set that the batched call returned.
C6_Witness ==
    /\ SecondReturned /\ Streaming /\ nthreads = ThreadCap
    /\ Len(delivered) < req.max_results /\ Len(delivered) > 0
    /\ Range(delivered) = Range(prev.seeds)

\* C16 as stated: when max_results is at least the number of matches of the
\* range and every partition holds fewer than RESULT_CHECK_INTERVAL seeds, the
\* streaming call delivers the set the batched call returned and reports the
\* same scanned total.
C16_SameSetAndScanned ==
    (SecondReturned /\ Streaming
        /\ req.max_results >= Cardinality(MatchSet(req))
        /\ \A i \in DOMAIN args :
               args[i].seed_end - args[i].seed_start + 1 < CheckInterval) =>
            /\ Range(delivered) = Range(prev.seeds)
            /\ scanned_out = prev.scanned

\* C16 amended: when at least one of the two calls hands back fewer than
\* max_results seeds (max_results exceeds the number of matches), the
\* streaming call delivers the set the batched call returned and reports the
\* same scanned total.
C16_SameSetAndScannedUnlessFull ==
    (SecondReturned /\ Streaming
        /\ (Len(delivered) < req.max_results \/ Len(prev.seeds) < req.max_results)) =>
            /\ Range(delivered) = Range(prev.seeds)
            /\ scanned_out = prev.scanned

\* C16 witness: a streaming call with two workers delivered the non-empty,
\* not full set of the batched call and reported its scanned total, the
\* size of the range.
C16_Witness ==
    /\ SecondReturned /\ Streaming /\ nthreads = ThreadCap
    /\ Len(delivered) < req.max_results /\ Len(delivered) > 0
    /\ Range(delivered) = Range(prev.seeds)
    /\ scanned_out = prev.scanned
    /\ scanned_out = req.seed_end - req.seed_start + 1

(***************************************************************************)
(* SlackSpec: searches for a single result over the 2 * SeedMax + 1 seeds  *)
(* SeedMin..SeedMax - 1, a range long enough for a partition to hold more  *)
(* seeds than CheckInterval * ThreadCap.  The range lies inside an integer *)
(* type that ends at PartMax, so that its total is representable and no    *)
(* seed++ reaches the largest value.                                       *)
(***************************************************************************)
SlackRequests ==
    { [mc_version |-> MC_1_16_5, seed_start |-> SeedMin, seed_end |-> SeedMax - 1,
       max_results |-> 1, structures |-> q] : q \in QueryLists }

SlackInit ==
    /\ req \in SlackRequests
    /\ fertile \in {S \in SUBSET (req.seed_start..req.seed_end) : Cardinality(S) \in 1..2}
    /\ build = "wrap"
    /\ call \in Calls
    /\ run = 1
    /\ prev = NoPrev
    /\ cpc = "entry"
    /\ nthreads = 0
    /\ args = <<>>
    /\ result = ZeroResult
    /\ found_total = 0
    /\ scanned_total = 0
    /\ scanned_out = -1
    /\ delivered = <<>>
    /\ mutex = NoOwner
    /\ wk = <<>>
    /\ body = NoBody
    /\ errmsg = NoError
    /\ NoFrontEnd

SlackNext ==
    \/ search_seeds_on(ThreadCap, PartMax)
    \/ search_seeds_join
    \/ search_seeds_stream_on(ThreadCap, PartMax)
    \/ search_seeds_stream_join
    \/ thread_worker
    \/ stream_thread_worker

SlackSpec == SlackInit /\ [][SlackNext]_vars

SetMin(S) == CHOOSE x \in S : \A y \in S : x <= y
\* the lowest matching seed of the range
first_match_seed == SetMin(MatchSet(req))
\* the partition that holds seed s
PartOf(s) == CHOOSE i \in DOMAIN args : args[i].seed_start <= s /\ s <= args[i].seed_end

\* C15 as stated: a search for one result in a range that contains a match
\* returns with result.scanned <= first_match_seed - seed_start + 1
\* + RESULT_CHECK_INTERVAL * MAX_THREADS.
C15_ScannedNearFirstMatch ==
    (Batched /\ Returned /\ req.max_results = 1 /\ MatchSet(req) # {}) =>
        result.scanned <= first_match_seed - req.seed_start + 1
                            + CheckInterval * ThreadCap

\* C15 amended: in a search for one result in a range that contains a match,
\* the workers of the partitions up to the one that holds first_match_seed
\* count together at most first_match_seed - seed_start + 1 seeds.
C15_ScannedUpToFirstMatch ==
    (Batched /\ Returned /\ req.max_results = 1 /\ MatchSet(req) # {}) =>
        SumScanned({i \in Workers : i <= PartOf(first_match_seed)})
            <= first_match_seed - req.seed_start + 1

\* C15 witness: the first match lies in the second partition, whose worker
\* stopped at it after the first worker had scanned its whole partition.
C15_Witness ==
    /\ Batched /\ Returned /\ req.max_results = 1 /\ MatchSet(req) # {}
    /\ PartOf(first_match_seed) = 1
    /\ SumScanned({0, 1}) = first_match_seed - req.seed_start + 1
    /\ first_match_seed < args[1].seed_end

(***************************************************************************)
(* PartSpec: the partition arithmetic of the two coordinators with the     *)
(* real MAX_THREADS, over every pair (seed_start, seed_end) of a PartMax-  *)
(* wide integer type.                                                      *)
(***************************************************************************)
PartSpace == (-PartMax - 1)..PartMax

PartInit ==
    /\ req \in [mc_version : {MC_1_16_5}, seed_start : PartSpace, seed_end : PartSpace,
                max_results : {1},
                structures : {<< [type |-> "Village", max_distance |-> 400, biome |-> -1] >>}]
    /\ fertile = {}
    /\ build = "wrap"
    /\ call \in Calls
    /\ run = 1
    /\ prev = NoPrev
    /\ cpc = "entry"
    /\ nthreads = 0
    /\ args = <<>>
    /\ result = ZeroResult
    /\ found_total = 0
    /\ scanned_total = 0
    /\ scanned_out = -1
    /\ delivered = <<>>
    /\ mutex = NoOwner
    /\ wk = <<>>
    /\ body = NoBody
    /\ errmsg = NoError
    /\ NoFrontEnd

PartNext ==
    \/ search_seeds_on(MAX_THREADS, PartMax)
    \/ search_seeds_stream_on(MAX_THREADS, PartMax)

PartSpec == PartInit /\ [][PartNext]_vars

PartRange(i) == args[i].seed_start..args[i].seed_end

\* C10: for every range with total = seed_end - seed_start + 1 >= 1 either
\* coordinator creates N = min(16, total) partitions, each non-empty, pairwise
\* disjoint, with union [seed_start, seed_end]; partition i starts at
\* seed_start + i * floor(total / N) and the last one ends at seed_end.
C10_Partition ==
    LET total == req.seed_end - req.seed_start + 1
    IN  (cpc # "entry" /\ total >= 1) =>
            /\ cpc = "join"
            /\ nthreads = Min(MAX_THREADS, total)
            /\ DOMAIN args = 0..(nthreads - 1)
            /\ \A i \in DOMAIN args : args[i].seed_start <= args[i].seed_end
            /\ \A i, j \in DOMAIN args : i # j => PartRange(i) \cap PartRange(j) = {}
            /\ UNION {PartRange(i) : i \in DOMAIN args} = req.seed_start..req.seed_end
            /\ \A i \in DOMAIN args :
                   args[i].seed_start = req.seed_start + i * (total \div nthreads)
            /\ args[nthreads - 1].seed_end = req.seed_end

\* C18: for an empty range (seed_start > seed_end) search_seeds spawns no
\* worker and leaves the zero-initialised result untouched;
\* search_seeds_stream spawns no worker, invokes no callback and writes 0 to
\* *scanned_out.
C18_EmptyRange ==
    (cpc # "entry" /\ req.seed_start > req.seed_end) =>
        /\ cpc = "returned" /\ nthreads = 0 /\ wk = <<>>
        /\ Batched => result = ZeroResult
        /\ Streaming => delivered = <<>> /\ scanned_out = 0

\* An empty range whose bounds are at most INT64_MAX apart, so that the
\* coordinator's total is representable, is handled as C18 states it.
EmptyRangeWhenRepresentable ==
    req.seed_start - req.seed_end <= PartMax => C18_EmptyRange

\* A range of at most INT64_MAX seeds has a total that the coordinator's
\* int64_t holds: there the partitions are as C10 states them.
PartitionWhenRepresentable ==
    req.seed_end - req.seed_start + 1 <= PartMax => C10_Partition

\* 16 partitions of at least two seeds whose last one absorbs a remainder
PartitionWithRemainder ==
    LET total == req.seed_end - req.seed_start + 1
    IN  /\ cpc = "join" /\ nthreads = MAX_THREADS /\ total <= PartMax
        /\ total \div MAX_THREADS >= 2 /\ total % MAX_THREADS # 0

(***************************************************************************)
(* ValidSpec: parse_request on the payloads of Payloads.  A payload is the *)
(* set of keys it lacks and the values of the keys it has; int64_t is the  *)
(* PartMax-wide integer type and int the IntMax-wide one.                  *)
(***************************************************************************)
\* (int)v of an int64_t v: the value modulo the width of int, INT_MAX = imax
CastInt(v, imax) == IF -imax - 1 <= v /\ v <= imax THEN v ELSE WrapTo(v, imax)
ToInt(v) == CastInt(v, IntMax)

\* g_versions (the entries the payloads name) and parse_mc_version
g_versions ==
    << [str |-> "1.15", mc |-> MC_1_15],
       [str |-> "1.16.5", mc |-> MC_1_16_5] >>

\* Faulty variant of parse_mc_version: an unknown string is read as 1.16.5.
parse_mc_version_lenient(str) ==
    IF \E k \in DOMAIN g_versions : g_versions[k].str = str
    THEN g_versions[CHOOSE k \in DOMAIN g_versions : g_versions[k].str = str].mc
    ELSE MC_1_16_5

parse_mc_version(str) ==
    IF \E k \in DOMAIN g_versions : g_versions[k].str = str
    THEN g_versions[CHOOSE k \in DOMAIN g_versions : g_versions[k].str = str].mc
    ELSE MC_UNDEF

\* g_struct_names and parse_structure_type; NoStructure is its -1
NoStructure == "none"
parse_structure_type(name) ==
    CASE name = "village"  -> "Village"
      [] name = "fortress" -> "Fortress"
      [] name = "bastion"  -> "Bastion"
      [] OTHER             -> NoStructure

\* g_biome_names and parse_biome_name
parse_biome_name(name) ==
    CASE name = "plains"        -> plains
      [] name = "desert"        -> desert
      [] name = "nether_wastes" -> nether_wastes
      [] OTHER                  -> -1

ZeroRequest ==
    [mc_version |-> 0, seed_start |-> 0, seed_end |-> 0, max_results |-> 0,
     structures |-> <<>>]

\* seed_end - seed_start > 1000000000LL: the subtraction overflows when the
\* two lie more than INT64_MAX apart.  Wrapping arithmetic compares the
\* wrapped difference; a build that relies on the absence of overflow may
\* compare as though the difference were exact.
RangeTooLong(seed_start, seed_end, b, hi) ==
    IF b = "wrap"
    THEN WrapTo(seed_end - seed_start, hi) > RangeCap
    ELSE seed_end - seed_start > RangeCap

\* Faulty variant of ps_object: the availability of the structure in the
\* version is not tested.
ps_object_any_version(o, mc, imax) ==
    LET stype == parse_structure_type(o.type)
        biome_id == IF o.biome # "" THEN parse_biome_name(o.biome) ELSE -1
    IN  IF stype = NoStructure THEN [ok |-> FALSE, errmsg |-> "unknown structure type"]
        ELSE IF o.max_distance <= 0
        THEN [ok |-> FALSE, errmsg |-> "max_distance must be positive"]
        ELSE IF o.biome # "" /\ biome_id < 0
        THEN [ok |-> FALSE, errmsg |-> "unknown biome name"]
        ELSE [ok |-> TRUE,
              sq |-> [type |-> stype, max_distance |-> CastInt(o.max_distance, imax),
                      biome |-> biome_id]]

\* The body of the structure loop for one object o of the array: type,
\* max_distance and biome are read from it (an absent type or biome reads as
\* the empty string, an absent max_distance as 0), checked, and stored.
ps_object(o, mc, imax) ==
    LET stype == parse_structure_type(o.type)
        biome_id == IF o.biome # "" THEN parse_biome_name(o.biome) ELSE -1
    IN  IF stype = NoStructure THEN [ok |-> FALSE, errmsg |-> "unknown structure type"]
        ELSE IF o.max_distance <= 0
        THEN [ok |-> FALSE, errmsg |-> "max_distance must be positive"]
        ELSE IF ~getStructureConfig(stype, mc).present
        THEN [ok |-> FALSE,
              errmsg |-> "structure type not available in requested version"]
        ELSE IF o.biome # "" /\ biome_id < 0
        THEN [ok |-> FALSE, errmsg |-> "unknown biome name"]
        ELSE [ok |-> TRUE,
              sq |-> [type |-> stype, max_distance |-> CastInt(o.max_distance, imax),
                      biome |-> biome_id]]

\* Faulty variant of ps_more: the loop does not stop at MAX_STRUCT_QUERIES.
ps_more_uncapped(objs, num) == num < Len(objs)

\* while (*arr && req->num_structures < MAX_STRUCT_QUERIES), and the breaks
\* taken when no further object precedes the end of the array
ps_more(objs, num) == num < Len(objs) /\ num < MAX_STRUCT_QUERIES

RECURSIVE ps_loop(_, _, _)
\* The structure loop entered with r = req: [ret, errmsg, req], ret = 0 for
\* the return inside the loop.
ps_loop(objs, r, imax) ==
    IF ~ps_more(objs, Len(r.structures))
    THEN [ret |-> 1, errmsg |-> NoError, req |-> r]
    ELSE LET o == ps_object(objs[Len(r.structures) + 1], r.mc_version, imax)
         IN  IF ~o.ok THEN [ret |-> 0, errmsg |-> o.errmsg, req |-> r]
             ELSE ps_loop(objs, [r EXCEPT !.structures = Append(@, o.sq)], imax)

\* parse_request from the "structures" key on, r being the request so far
ps_structures(b, r, imax) ==
    IF "structures" \in b.absent
    THEN [ret |-> 0, errmsg |-> "missing structures", req |-> r]
    ELSE IF "[" \in b.absent
    THEN [ret |-> 0, errmsg |-> "structures is not an array", req |-> r]
    ELSE LET l == ps_loop(b.structures, r, imax)
         IN  IF l.ret = 0 THEN l
             ELSE IF Len(l.req.structures) = 0
             THEN [ret |-> 0, errmsg |-> "structures array is empty", req |-> l.req]
             ELSE l

\* Faulty variant of ps_max_results: the value is not clamped to MAX_RESULTS.
ps_max_results_unclamped(b, r, imax) ==
    IF "max_results" \in b.absent
    THEN [ret |-> 0, errmsg |-> "missing or invalid max_results", req |-> r]
    ELSE LET r1 == [r EXCEPT !.max_results = CastInt(b.max_results, imax)]
         IN  IF r1.max_results <= 0
             THEN [ret |-> 0, errmsg |-> "missing or invalid max_results", req |-> r1]
             ELSE ps_structures(b, r1, imax)

\* parse_request from the "max_results" key on: json_read_int stores
\* (int)v into req->max_results before the test
ps_max_results(b, r, imax) ==
    IF "max_results" \in b.absent
    THEN [ret |-> 0, errmsg |-> "missing or invalid max_results", req |-> r]
    ELSE LET r1 == [r EXCEPT !.max_results = CastInt(b.max_results, imax)]
         IN  IF r1.max_results <= 0
             THEN [ret |-> 0, errmsg |-> "missing or invalid max_results", req |-> r1]
             ELSE ps_structures(b,
                    [r1 EXCEPT !.max_results =
                                  IF @ > MAX_RESULTS THEN MAX_RESULTS ELSE @], imax)

\* parse_request from the "seed_start" key on
ps_range(b, r, bld, imax, hi) ==
    IF "seed_start" \in b.absent
    THEN [ret |-> 0, errmsg |-> "missing seed_start", req |-> r]
    ELSE LET r1 == [r EXCEPT !.seed_start = b.seed_start]
         IN  IF "seed_end" \in b.absent
             THEN [ret |-> 0, errmsg |-> "missing seed_end", req |-> r1]
             ELSE LET r2 == [r1 EXCEPT !.seed_end = b.seed_end]
                  IN  IF r2.seed_end < r2.seed_start
                      THEN [ret |-> 0, errmsg |-> "seed_end must be >= seed_start",
                            req |-> r2]
                      ELSE IF RangeTooLong(r2.seed_start, r2.seed_end, bld, hi)
                      THEN [ret |-> 0,
                            errmsg |-> "seed range must not exceed 1 billion",
                            req |-> r2]
                      ELSE ps_max_results(b, r2, imax)

\* parse_request: memset, version, seed_start, seed_end, the two range
\* tests, max_results and the structures.  The result is the return value,
\* *errmsg and *req.  INT_MAX = imax and INT64_MAX = hi.
parse_request_on(b, bld, imax, hi) ==
    IF "version" \in b.absent
    THEN [ret |-> 0, errmsg |-> "missing version", req |-> ZeroRequest]
    ELSE LET r1 == [ZeroRequest EXCEPT !.mc_version = parse_mc_version(b.version)]
         IN  IF r1.mc_version = MC_UNDEF
             THEN [ret |-> 0, errmsg |-> "unknown version string", req |-> r1]
             ELSE ps_range(b, r1, bld, imax, hi)

\* parse_request in the integer types of ValidSpec
parse_request_of(b, bld) == parse_request_on(b, bld, IntMax, PartMax)

parse_request ==
    /\ cpc = "parse"
    /\ LET p == parse_request_of(body, build)
       IN  /\ req' = p.req
           /\ errmsg' = p.errmsg
           /\ cpc' = IF p.ret = 1 THEN "entry" ELSE "rejected"
    /\ UNCHANGED <<conn, rl, clock, caller, granted, body, fertile, build, call, run, prev,
                   nthreads, args, result, found_total, scanned_total, scanned_out,
                   delivered, mutex, wk>>

\* The payloads drawn.  GoodBody is accepted; every family varies it in the
\* fields one of the validator's rules is about.
Keys == {"version", "seed_start", "seed_end", "max_results", "structures", "["}
GoodObj == [type |-> "village", max_distance |-> 5, biome |-> ""]
GoodBody ==
    [absent |-> {}, version |-> "1.16.5", seed_start |-> 0, seed_end |-> 0,
     max_results |-> 1, structures |-> << GoodObj >>]

\* every pair (seed_start, seed_end) of int64_t
RangePayloads ==
    { [GoodBody EXCEPT !.seed_start = s, !.seed_end = e] : s, e \in PartSpace }
\* every int64_t max_results
MaxResultsPayloads == { [GoodBody EXCEPT !.max_results = m] : m \in PartSpace }
\* one key missing
MissingPayloads == { [GoodBody EXCEPT !.absent = {k}] : k \in Keys }
\* version strings in and out of the registry
VersionStrings == {"1.15", "1.16.5", "1.16.6", ""}
\* one structure object: every name, every int64_t max_distance, every biome
ObjSpace ==
    [type : {"village", "bastion", "castle", ""}, max_distance : PartSpace,
     biome : {"", "plains", "narnia"}]
ObjectPayloads ==
    { [GoodBody EXCEPT !.version = v, !.structures = << o >>] :
        v \in VersionStrings, o \in ObjSpace }
\* arrays of up to MAX_STRUCT_QUERIES + 2 objects, at most one of them (at
\* position p) other than GoodObj
OddObjs ==
    { GoodObj,
      [GoodObj EXCEPT !.type = "bastion"],
      [GoodObj EXCEPT !.type = "castle"],
      [GoodObj EXCEPT !.max_distance = 0],
      [GoodObj EXCEPT !.max_distance = IntMax + 1],
      [GoodObj EXCEPT !.biome = "narnia"],
      [GoodObj EXCEPT !.biome = "plains"] }
ArrayPayloads ==
    { [GoodBody EXCEPT !.version = v,
                       !.structures = [k \in 1..n |-> IF k = p THEN o ELSE GoodObj]] :
        v \in {"1.15", "1.16.5"}, n \in 0..(MAX_STRUCT_QUERIES + 2),
        p \in 1..(MAX_STRUCT_QUERIES + 2), o \in OddObjs }

Payloads ==
    RangePayloads \cup MaxResultsPayloads \cup MissingPayloads
        \cup ObjectPayloads \cup ArrayPayloads

ValidInit ==
    /\ body \in Payloads
    /\ errmsg = NoError
    /\ req = ZeroRequest
    /\ fertile = {}
    /\ build \in (IF body \in RangePayloads THEN Builds ELSE {"wrap"})
    /\ call = "search_seeds"
    /\ run = 1
    /\ prev = NoPrev
    /\ cpc = "parse"
    /\ nthreads = 0
    /\ args = <<>>
    /\ result = ZeroResult
    /\ found_total = 0
    /\ scanned_total = 0
    /\ scanned_out = -1
    /\ delivered = <<>>
    /\ mutex = NoOwner
    /\ wk = <<>>
    /\ NoFrontEnd

ValidNext == parse_request

ValidSpec == ValidInit /\ [][ValidNext]_vars

Parsed == cpc \in {"entry", "rejected"}
Accepted == cpc = "entry"
\* the number of seeds of the range of the payload
BodySize == body.seed_end - body.seed_start + 1

\* C19: parse_request accepts a range of exactly 10^9 seeds and rejects a
\* range of 10^9 + 1 seeds with 'seed range must not exceed 1 billion'.
C19_RangeCapBoundary ==
    (Parsed /\ body \in RangePayloads) =>
        /\ BodySize = RangeCap => Accepted
        /\ BodySize = RangeCap + 1 =>
              ~Accepted /\ errmsg = "seed range must not exceed 1 billion"

\* C20: for all seed_start and seed_end of the integer type, an accepted
\* request has seed_start <= seed_end and seed_end - seed_start + 1 <= 10^9
\* as mathematical integers, and every other pair is rejected with one of
\* the two range messages.
C20_AcceptedRangeValid ==
    (Parsed /\ body \in RangePayloads) =>
        /\ Accepted => body.seed_start <= body.seed_end /\ BodySize <= RangeCap
        /\ ~Accepted =>
              /\ ~(body.seed_start <= body.seed_end /\ BodySize <= RangeCap)
              /\ errmsg \in {"seed_end must be >= seed_start",
                              "seed range must not exceed 1 billion"}

\* What the two range tests do decide when seed_end and seed_start lie at
\* most INT64_MAX apart: a request is accepted iff
\* 0 <= seed_end - seed_start <= 10^9, a range of up to 10^9 + 1 seeds, and
\* stored as given; a reversed range is rejected with the first message, a
\* longer one with the second.
RangeTestsWhenRepresentable ==
    (Parsed /\ body \in RangePayloads /\ body.seed_end - body.seed_start <= PartMax) =>
        /\ Accepted <=> (1 <= BodySize /\ BodySize <= RangeCap + 1)
        /\ Accepted => req.seed_start = body.seed_start /\ req.seed_end = body.seed_end
        /\ BodySize < 1 => errmsg = "seed_end must be >= seed_start"
        /\ BodySize > RangeCap + 1 => errmsg = "seed range must not exceed 1 billion"

\* C21: parse_request rejects a missing or non-positive max_results with
\* 'missing or invalid max_results' and accepts every 64-bit max_results
\* above 10, storing 10; every accepted request has max_results in 1..10.
C21_MaxResultsClamped ==
    (Parsed /\ body \in MaxResultsPayloads \cup MissingPayloads) =>
        /\ ("max_results" \in body.absent \/ body.max_results <= 0) =>
              ~Accepted /\ errmsg = "missing or invalid max_results"
        /\ (body.absent = {} /\ body.max_results > MAX_RESULTS) =>
              Accepted /\ req.max_results = MAX_RESULTS
        /\ Accepted => req.max_results \in 1..MAX_RESULTS

\* What the max_results rule does decide: the value is judged after its
\* cast to int.  A payload is rejected iff (int)max_results <= 0, and the
\* stored value is (int)max_results clamped to 10, so that every accepted
\* request has max_results in 1..10.
MaxResultsAfterCast ==
    Parsed =>
        /\ body \in MaxResultsPayloads =>
              /\ Accepted <=> ToInt(body.max_results) > 0
              /\ Accepted => req.max_results = Min(ToInt(body.max_results), MAX_RESULTS)
              /\ ~Accepted => errmsg = "missing or invalid max_results"
        /\ Accepted => req.max_results \in 1..MAX_RESULTS

\* the objects of the payload that the structure loop can reach
Read(b) == 1..Min(Len(b.structures), MAX_STRUCT_QUERIES)
InRegistry(str) == \E k \in DOMAIN g_versions : g_versions[k].str = str
\* the payload passes every check made before the structure loop
HeaderOkOn(b, imax) ==
    /\ b.absent = {}
    /\ InRegistry(b.version)
    /\ b.seed_start <= b.seed_end /\ b.seed_end - b.seed_start <= RangeCap
    /\ CastInt(b.max_results, imax) > 0
HeaderOk(b) == HeaderOkOn(b, IntMax)

\* C22: every structure query stored in an accepted request has
\* max_distance > 0, whatever 64-bit max_distance the payload supplied, and
\* a max_distance <= 0 is rejected with 'max_distance must be positive'.
C22_MaxDistancePositive ==
    Parsed =>
        /\ Accepted => \A k \in DOMAIN req.structures : req.structures[k].max_distance > 0
        /\ (\E k \in Read(body) : body.structures[k].max_distance <= 0) => ~Accepted
        /\ (/\ body \in ObjectPayloads
            /\ HeaderOk(body)
            /\ parse_structure_type(body.structures[1].type) # NoStructure
            /\ body.structures[1].max_distance <= 0) =>
              errmsg = "max_distance must be positive"

\* What the max_distance rule does decide: the 64-bit value is tested, its
\* cast to int is stored.  Every object stored had max_distance > 0 in the
\* payload, and the request holds (int)max_distance.
MaxDistanceBeforeCast ==
    Parsed =>
        /\ (\E k \in Read(body) : body.structures[k].max_distance <= 0) => ~Accepted
        /\ Accepted => \A k \in DOMAIN req.structures :
              /\ body.structures[k].max_distance > 0
              /\ req.structures[k].max_distance = ToInt(body.structures[k].max_distance)
        /\ (/\ body \in ObjectPayloads
            /\ HeaderOk(body)
            /\ parse_structure_type(body.structures[1].type) # NoStructure
            /\ body.structures[1].max_distance <= 0) =>
              errmsg = "max_distance must be positive"

\* C23: parse_request reports 'unknown version string' both when the version
\* field is missing and when the version string is not in the registry.
C23_VersionErrorsAlike ==
    (Parsed /\ ("version" \in body.absent \/ ~InRegistry(body.version))) =>
        ~Accepted /\ errmsg = "unknown version string"

\* C23 as the code has it: a payload without a version field is rejected
\* with 'missing version', one whose version string is not in the registry
\* with 'unknown version string'.
C23_VersionErrorsByCase ==
    Parsed =>
        /\ "version" \in body.absent => ~Accepted /\ errmsg = "missing version"
        /\ ("version" \notin body.absent /\ ~InRegistry(body.version)) =>
              ~Accepted /\ errmsg = "unknown version string"

C23_Witness ==
    /\ cpc = "rejected"
    /\ "version" \notin body.absent /\ body.version = "1.16.6"
    /\ errmsg = "unknown version string"

\* the per-structure rules of the validator, on an object of the payload
ObjValid(o, mc) ==
    /\ parse_structure_type(o.type) # NoStructure
    /\ o.max_distance > 0
    /\ getStructureConfig(parse_structure_type(o.type), mc).present
    /\ o.biome = "" \/ parse_biome_name(o.biome) >= 0

\* C24: an accepted request holds between 1 and 16 structure queries; of a
\* payload with more than 16 objects the first 16 are stored, each having
\* passed every per-structure check, and the rest is ignored; a payload whose
\* array has no object is rejected with 'structures array is empty'.
C24_StructuresCapped ==
    Parsed =>
        /\ Accepted =>
              /\ Len(req.structures) \in 1..MAX_STRUCT_QUERIES
              /\ Len(req.structures) = Min(Len(body.structures), MAX_STRUCT_QUERIES)
              /\ \A k \in DOMAIN req.structures :
                    /\ ObjValid(body.structures[k], req.mc_version)
                    /\ req.structures[k].type = parse_structure_type(body.structures[k].type)
        /\ (/\ HeaderOk(body)
            /\ Len(body.structures) > MAX_STRUCT_QUERIES
            /\ \A k \in 1..MAX_STRUCT_QUERIES :
                  ObjValid(body.structures[k], parse_mc_version(body.version))) => Accepted
        /\ (HeaderOk(body) /\ Len(body.structures) = 0) =>
              ~Accepted /\ errmsg = "structures array is empty"

\* an accepted payload of 18 objects whose 17th is invalid
C24_Witness ==
    /\ Accepted
    /\ Len(body.structures) = MAX_STRUCT_QUERIES + 2
    /\ ~ObjValid(body.structures[MAX_STRUCT_QUERIES + 1], req.mc_version)
    /\ Len(req.structures) = MAX_STRUCT_QUERIES

(***************************************************************************)
(* ServeSpec: one connection served from its payload to its close.         *)
(* POST /search runs handle_request around search_seeds; GET               *)
(* /search/stream runs ws_upgrade_handler around search_seeds_stream.      *)
(* int64_t is the engine's SeedMin..SeedMax, int is the real int.          *)
(***************************************************************************)
\* the frames and responses of the front end
SeedFrame(seed) == [t |-> "seed", v |-> seed]
DoneFrame(scanned) == [t |-> "done", v |-> scanned]
CloseFrame(code) == [t |-> "close", v |-> code]
\* send_response(connection, status, body)
Response(status, b) == [t |-> "http", v |-> status, body |-> b]

\* Faulty variant of ErrorFrame: the message of parse_request is dropped.
ErrorFrame_generic(msg) == [t |-> "error", v |-> "bad request"]

\* {"error":"<errmsg>"}
ErrorFrame(msg) == [t |-> "error", v |-> msg]

\* Faulty variant of hr_after_parse: the search is run whatever
\* parse_request returned.
hr_after_parse_lenient(p) == "entry"

\* where handle_request goes after parse_request returned p
hr_after_parse(p) == IF p.ret = 1 THEN "entry" ELSE "closed"

\* handle_request once the POST body is complete, up to the call of
\* search_seeds: the empty body and the parse failure are answered with 400
hr_parse ==
    /\ cpc = "parse" /\ conn.kind = "http"
    /\ IF body = NoBody
       THEN /\ conn' = [conn EXCEPT !.sent = Append(@, Response(400, "empty body"))]
            /\ cpc' = "closed"
            /\ UNCHANGED <<req, errmsg, result>>
       ELSE LET p == parse_request_on(body, build, INT_MAX, SeedMax)
            IN  /\ req' = p.req
                /\ errmsg' = p.errmsg
                /\ cpc' = hr_after_parse(p)
                /\ IF p.ret = 1
                   THEN /\ result' = ZeroResult
                        /\ UNCHANGED conn
                   ELSE /\ conn' = [conn EXCEPT !.sent = Append(@, Response(400, p.errmsg))]
                        /\ UNCHANGED result
    /\ UNCHANGED <<rl, clock, caller, granted, body, fertile, build, call, run, prev,
                   nthreads, args, found_total, scanned_total, scanned_out, delivered,
                   mutex, wk>>

\* handle_request after search_seeds returned: format_response and 200
hr_reply ==
    /\ cpc = "returned" /\ conn.kind = "http"
    /\ conn' = [conn EXCEPT !.sent = Append(@, Response(200, result))]
    /\ cpc' = "closed"
    /\ UNCHANGED <<rl, clock, caller, granted, body, errmsg, fertile, req, build, call, run,
                   prev, nthreads, args, result, found_total, scanned_total, scanned_out,
                   delivered, mutex, wk>>

handle_request == hr_parse \/ hr_reply

\* ws_recv_frame of the client's first frame; a frame it cannot read (a close
\* or control frame, a length of 4095 bytes or more, a short read) is
\* answered with the close 1003 alone
whr_recv ==
    /\ cpc = "recv" /\ conn.kind = "ws"
    /\ IF conn.frame = "unreadable"
       THEN /\ \E ok \in SendOutcomes(conn) : conn' = ws_send(conn, CloseFrame(1003), ok)
            /\ cpc' = "closed"
       ELSE /\ cpc' = "parse"
            /\ UNCHANGED conn
    /\ UNCHANGED <<rl, clock, caller, granted, body, errmsg, fertile, req, build, call, run,
                   prev, nthreads, args, result, found_total, scanned_total, scanned_out,
                   delivered, mutex, wk>>

\* where ws_upgrade_handler goes after parse_request returned p
whr_after_parse(p) == IF p.ret = 1 THEN "entry" ELSE "closed"

\* parse_request; on failure the error frame and the close 1003; on success
\* send_ctx.error = 0, scanned = 0 and the call of search_seeds_stream
whr_parse ==
    /\ cpc = "parse" /\ conn.kind = "ws"
    /\ LET p == parse_request_on(body, build, INT_MAX, SeedMax)
       IN  /\ req' = p.req
           /\ errmsg' = p.errmsg
           /\ cpc' = whr_after_parse(p)
           /\ IF p.ret = 1
              THEN /\ conn' = [conn EXCEPT !.error = 0]
                   /\ scanned_out' = 0
              ELSE /\ \E ok1, ok2 \in SendOutcomes(conn) :
                         conn' = ws_send(ws_send(conn, ErrorFrame(p.errmsg), ok1),
                                         CloseFrame(1003), ok2)
                   /\ UNCHANGED scanned_out
    /\ UNCHANGED <<rl, clock, caller, granted, body, fertile, build, call, run, prev,
                   nthreads, args, result, found_total, scanned_total, delivered, mutex, wk>>

\* the done-summary frame, sent unless a send has failed
whr_summary(c, scanned, ok) ==
    IF c.error = 0 THEN ws_send(c, DoneFrame(scanned), ok) ELSE c

\* after search_seeds_stream returned: the done frame and the close 1000
whr_done ==
    /\ cpc = "returned" /\ conn.kind = "ws"
    /\ \E ok1, ok2 \in SendOutcomes(conn) :
          conn' = ws_send(whr_summary(conn, scanned_out, ok1), CloseFrame(1000), ok2)
    /\ cpc' = "closed"
    /\ UNCHANGED <<rl, clock, caller, granted, body, errmsg, fertile, req, build, call, run,
                   prev, nthreads, args, result, found_total, scanned_total, scanned_out,
                   delivered, mutex, wk>>

ws_upgrade_handler == whr_recv \/ whr_parse \/ whr_done

\* The payloads of the connections served: ServeGood is the request of Spec.
ServeObjs ==
    << [type |-> "village", max_distance |-> 500, biome |-> "plains"],
       [type |-> "fortress", max_distance |-> 400, biome |-> ""] >>
ServeGood ==
    [absent |-> {}, version |-> "1.16.5", seed_start |-> 0, seed_end |-> 1,
     max_results |-> 1, structures |-> ServeObjs]
\* valid payloads: a short range, a range that ends at INT64_MAX, one or
\* MaxRes results; and a request for more results than a SearchResult holds
ServeValid ==
    { [ServeGood EXCEPT !.seed_start = r[1], !.seed_end = r[2], !.max_results = m] :
        r \in {<<0, 1>>, <<0, 2>>, <<SeedMax - 1, SeedMax>>}, m \in {1, MaxRes} }
      \cup { [ServeGood EXCEPT !.max_results = MAX_RESULTS + 1] }
\* a bastion, which exists from 1.16 on
ServeBastion ==
    { [ServeGood EXCEPT !.version = v,
                        !.structures = Append(ServeObjs,
                            [type |-> "bastion", max_distance |-> d, biome |-> ""])] :
        v \in {"1.15", "1.16.5"}, d \in {0, 300} }
\* payloads that break one rule of the validator
ServeInvalid ==
    { [ServeGood EXCEPT !.absent = {k}] : k \in Keys }
      \cup { [ServeGood EXCEPT !.version = "1.16.6"],
             [ServeGood EXCEPT !.seed_start = 1, !.seed_end = 0],
             [ServeGood EXCEPT !.seed_start = SeedMin, !.seed_end = 0],
             [ServeGood EXCEPT !.max_results = 0],
             [ServeGood EXCEPT !.structures = <<>>],
             [ServeGood EXCEPT !.structures[2].type = "castle"],
             [ServeGood EXCEPT !.structures[2].max_distance = 0],
             [ServeGood EXCEPT !.structures[1].biome = "narnia"] }
ServePayloads == ServeValid \cup ServeBastion \cup ServeInvalid

\* the seeds of a payload's range that a worker can reach
BodyReachable(b) ==
    IF b = NoBody THEN {}
    ELSE Reachable([seed_start |-> b.seed_start, seed_end |-> b.seed_end])

ServeInit ==
    /\ conn \in {NewConn("http", "none"), NewConn("ws", "text"),
                 NewConn("ws", "unreadable")}
    /\ body \in (IF conn.frame = "unreadable" THEN {NoBody}
                 ELSE IF conn.kind = "http" THEN ServePayloads \cup {NoBody}
                 ELSE ServePayloads)
    /\ fertile \in {S \in SUBSET BodyReachable(body) : Cardinality(S) <= MaxFertile}
    /\ build \in (IF body # NoBody /\ body.seed_end = SeedMax THEN Builds ELSE {"wrap"})
    /\ call = IF conn.kind = "http" THEN "search_seeds" ELSE "search_seeds_stream"
    /\ cpc = IF conn.kind = "http" THEN "parse" ELSE "recv"
    /\ errmsg = NoError
    /\ req = ZeroRequest
    /\ run = 1
    /\ prev = NoPrev
    /\ nthreads = 0
    /\ args = <<>>
    /\ result = ZeroResult
    /\ found_total = 0
    /\ scanned_total = 0
    /\ scanned_out = -1
    /\ delivered = <<>>
    /\ mutex = NoOwner
    /\ wk = <<>>
    /\ rl = <<>>
    /\ clock = 0
    /\ caller = <<>>
    /\ granted = <<>>

ServeNext ==
    \/ handle_request
    \/ ws_upgrade_handler
    \/ search_seeds
    \/ search_seeds_join
    \/ search_seeds_stream
    \/ search_seeds_stream_join
    \/ thread_worker
    \/ stream_thread_worker

ServeSpec == ServeInit /\ [][ServeNext]_vars

\* the handler has called parse_request on the payload
ServeParsed == body # NoBody /\ conn.frame # "unreadable" /\ cpc \notin {"recv", "parse"}
ServeAccepted == ServeParsed /\ errmsg = NoError
ServeRejected == ServeParsed /\ errmsg # NoError
\* the frames of kind t among the frames sent
FramesOf(t) == {k \in DOMAIN conn.sent : conn.sent[k].t = t}

\* object k of the payload names a known structure that the oracle does not
\* have in the payload's version
Unavailable(b, k) ==
    /\ parse_structure_type(b.structures[k].type) # NoStructure
    /\ ~getStructureConfig(parse_structure_type(b.structures[k].type),
                           parse_mc_version(b.version)).present

BastionScanned ==
    /\ ServeAccepted
    /\ \E k \in DOMAIN req.structures : req.structures[k].type = "Bastion"
    /\ \E i \in Workers : wk[i].local_scanned > 0

\* C26: when validation fails no partial work is done: neither entry point
\* is called, no worker is spawned, no seed is reported; the batched path
\* answers with a 400 carrying the error, the streaming path with an error
\* frame.
C26_NoWorkOnFailure ==
    ServeRejected =>
        /\ cpc = "closed"
        /\ nthreads = 0 /\ wk = <<>>
        /\ delivered = <<>> /\ result = ZeroResult
        /\ FramesOf("seed") = {} /\ FramesOf("done") = {}
        /\ conn.kind = "http" =>
              /\ Len(conn.sent) = 1
              /\ conn.sent[1].t = "http" /\ conn.sent[1].v = 400
              /\ conn.sent[1].body = errmsg
        /\ (conn.kind = "ws" /\ conn.lost = 0) =>
              /\ Len(conn.sent) >= 1
              /\ conn.sent[1].t = "error" /\ conn.sent[1].v = errmsg

C26_Witness ==
    /\ ServeRejected
    /\ conn.kind = "http"
    /\ errmsg = "seed_end must be >= seed_start"
    /\ Len(conn.sent) = 1

\* Some thread of the served connection can take a step: the handler outside
\* the engine, the coordinator, or a worker (a worker whose scan counter has
\* reached MaxScan stands for one that scans without end).
ServeCanStep ==
    \/ cpc \in {"recv", "parse", "entry", "returned"}
    \/ cpc = "join" /\ AllExited
    \/ \E i \in Workers : wk[i].pc \in {"chk", "pub", "in_cb", "fin"}
    \/ \E i \in Workers : wk[i].pc = "scan" /\ wk[i].local_scanned < MaxScan
    \/ \E i \in Workers : wk[i].pc \in {"chk_lock", "pub_lock", "fin_lock"}
                             /\ mutex = NoOwner

\* C27: on a valid streaming request the server sends at most max_results
\* seed frames, then exactly one done frame with the final scanned total,
\* then the close 1000; no seed frame follows the done frame, the done frame
\* is sent only after every worker is joined, and every session gets there.
\* (What is sent is what send() took: the sequence is claimed of sessions
\* without a failed send.)
C27_StreamProtocol ==
    (conn.kind = "ws" /\ ServeAccepted) =>
        /\ Cardinality(FramesOf("seed")) <= req.max_results
        /\ Cardinality(FramesOf("done")) <= 1
        /\ \A d \in FramesOf("done") :
              /\ \A k \in FramesOf("seed") : k < d
              /\ cpc = "closed" /\ AllExited
              /\ conn.sent[d].v = scanned_out
              /\ scanned_out = SumScanned(Workers)
        /\ \A c \in FramesOf("close") : c = Len(conn.sent) /\ conn.sent[c].v = 1000
        /\ (cpc = "closed" /\ conn.lost = 0) =>
              /\ Len(conn.sent) = Cardinality(FramesOf("seed")) + 2
              /\ conn.sent[Len(conn.sent) - 1].t = "done"
              /\ conn.sent[Len(conn.sent)].t = "close"
        /\ cpc = "closed" \/ ServeCanStep

\* The streaming protocol of a session whose workers leave their loops: the
\* range ends below INT64_MAX, or the build ends the loop at the overflow.
StreamProtocolUnlessWrapped ==
    (body # NoBody /\ ~(build = "wrap" /\ body.seed_end = SeedMax)) => C27_StreamProtocol

\* a session with a seed frame, the done frame and the close
StreamCompleted ==
    /\ conn.kind = "ws" /\ ServeAccepted /\ cpc = "closed" /\ conn.lost = 0
    /\ FramesOf("seed") # {}
    /\ FramesOf("done") # {}

\* C28: whenever the first client frame cannot be turned into a valid
\* request, the server sends exactly one error frame and then the close
\* 1003, and no seed or done frame.
C28_ErrorFrameAlways ==
    (/\ conn.kind = "ws" /\ cpc = "closed" /\ conn.lost = 0
     /\ conn.frame = "unreadable" \/ ServeRejected) =>
        /\ Len(conn.sent) = 2
        /\ conn.sent[1].t = "error"
        /\ conn.sent[2].t = "close" /\ conn.sent[2].v = 1003

\* C28 as the code has it: a first frame that parse_request rejects is
\* answered with one error frame carrying the message and then the close
\* 1003; a first frame that ws_recv_frame cannot read is answered with the
\* close 1003 alone; in neither case is a seed or done frame sent.
C28_ErrorFrameOnParseFailure ==
    (conn.kind = "ws" /\ (conn.frame = "unreadable" \/ ServeRejected)) =>
        /\ FramesOf("seed") = {} /\ FramesOf("done") = {}
        /\ (cpc = "closed" /\ conn.lost = 0 /\ ServeRejected) =>
              /\ Len(conn.sent) = 2
              /\ conn.sent[1].t = "error" /\ conn.sent[1].v = errmsg
              /\ conn.sent[2].t = "close" /\ conn.sent[2].v = 1003
        /\ (cpc = "closed" /\ conn.lost = 0 /\ conn.frame = "unreadable") =>
              /\ Len(conn.sent) = 1
              /\ conn.sent[1].t = "close" /\ conn.sent[1].v = 1003

C28_Witness ==
    /\ conn.kind = "ws" /\ ServeRejected /\ cpc = "closed" /\ conn.lost = 0
    /\ errmsg = "unknown version string"
    /\ Len(conn.sent) = 2

\* the WebSocket sink has seen a send of a seed frame fail
SinkFailed == conn.kind = "ws" /\ conn.error # 0

\* the flag is raised by a callback whose send fails, and only so
ErrorRaisedBySend ==
    (conn.kind = "ws" /\ conn.error = 0 /\ conn'.error # 0) =>
        /\ conn'.lost = conn.lost + 1 /\ conn'.sent = conn.sent
        /\ Len(delivered') = Len(delivered) + 1

\* once raised the flag stays, no callback sends or attempts a send, and the
\* only frame the handler may still send is the close
ErrorSticky ==
    SinkFailed =>
        /\ conn'.error # 0
        /\ delivered' # delivered => (conn'.sent = conn.sent /\ conn'.lost = conn.lost)
        /\ conn'.sent # conn.sent =>
              /\ cpc = "returned" /\ cpc' = "closed"
              /\ conn'.sent = Append(conn.sent, CloseFrame(1000))

\* after a failed send no done frame is on the wire, the frames sent are the
\* seeds delivered before the failure, and a session that was closed had its
\* search run to its end: every worker joined, *scanned_out written
ErrorNoDone ==
    SinkFailed =>
        /\ FramesOf("done") = {}
        /\ Cardinality(FramesOf("seed")) < Len(delivered)
        /\ Len(delivered) <= req.max_results
        /\ \A k \in FramesOf("seed") : conn.sent[k].v = delivered[k]
        /\ cpc = "closed" => (AllExited /\ scanned_out = scanned_total)

\* C37: in the WebSocket sink, once the send of a seed frame fails the error
\* flag is set and stays set: every later callback sends nothing and no done
\* frame is sent after the search, while the engine runs the search to its
\* end and invokes the callback up to max_results times in all.
C37_SinkErrorSticky ==
    []ErrorNoDone /\ [][ErrorRaisedBySend /\ ErrorSticky]_vars

\* C37 witness: the session is closed after the send of the first seed frame
\* failed and the engine delivered a second seed to the callback.
C37_Witness ==
    /\ SinkFailed /\ cpc = "closed"
    /\ FramesOf("seed") = {}
    /\ Len(delivered) = 2 /\ req.max_results = 2

\* the request of an accepted payload asks for at most MAX_RESULTS seeds, and
\* the result holds count seeds, at most as many as asked for
SeedsWithinCapacity ==
    ServeAccepted =>
        /\ req.max_results \in 1..MAX_RESULTS
        /\ Len(result.seeds) = result.count
        /\ result.count <= req.max_results

\* a write into result.seeds while the workers run is the holder's
\* seeds[count++] = seed, with count below max_results before the write
WriteWithinCapacity ==
    (cpc = "join" /\ result'.seeds # result.seeds) =>
        /\ mutex \in Workers
        /\ result'.seeds = Append(result.seeds, wk[mutex].seed)
        /\ result'.count = result.count + 1
        /\ 0 <= result.count /\ result.count < req.max_results
        /\ result.count <= MAX_RESULTS - 1

\* C38: for every request the validator accepts, every write of a worker into
\* result.seeds uses an index in 0..MAX_RESULTS - 1: the array of MAX_RESULTS
\* seeds is not written out of bounds under any interleaving.
C38_SeedsIndexInBounds ==
    []SeedsWithinCapacity /\ [][WriteWithinCapacity]_vars

\* C38 witness: a worker has written a seed into the result of a request
\* whose payload asked for MAX_RESULTS + 1 seeds.
C38_Witness ==
    /\ ServeAccepted /\ conn.kind = "http"
    /\ body.max_results > MAX_RESULTS /\ req.max_results = MAX_RESULTS
    /\ result.count >= 1

(***************************************************************************)
(* RateSpec: rate_limiter_check called by RateThreads threads for three    *)
(* client addresses while the clock advances.                              *)
(***************************************************************************)
RECURSIVE BitXor(_, _)
\* a ^ b for a, b >= 0
BitXor(a, b) ==
    IF a = 0 THEN b
    ELSE IF b = 0 THEN a
    ELSE (IF a % 2 = b % 2 THEN 0 ELSE 1) + 2 * BitXor(a \div 2, b \div 2)

RECURSIVE djb2(_, _, _)
\* for (p = ip; *p; p++) h = ((h << 5) + h) ^ *p, from character k on.  h is
\* kept modulo RATE_TABLE_SIZE, a power of two that divides the width of
\* unsigned int: the low bits of h depend on the low bits alone.
djb2(h, ip, k) ==
    IF k > Len(ip) THEN h
    ELSE djb2(BitXor((h * 33) % RATE_TABLE_SIZE, ip[k]), ip, k + 1)

\* int slot = (int)(h % RATE_TABLE_SIZE), h starting at 5381
SlotOf(ip) == djb2(5381 % RATE_TABLE_SIZE, ip, 1) % RATE_TABLE_SIZE

\* the client addresses, as the characters of the strings inet_ntop gives:
\* "10.0.0.1", "10.0.0.100" (the same slot as the first) and "10.0.0.2"
IpA == <<49, 48, 46, 48, 46, 48, 46, 49>>
IpB == <<49, 48, 46, 48, 46, 48, 46, 49, 48, 48>>
IpC == <<49, 48, 46, 48, 46, 48, 46, 50>>
IPs == {IpA, IpB, IpC}

\* the entries of the table that the calls can touch (the others stay zero)
Slots == {SlotOf(ip) : ip \in IPs}

\* an entry after rate_limiter_init: ip[0] = 0.  allowed is a history of the
\* entry: the calls allowed since count was last set to 1.
ZeroEntry == [ip |-> <<>>, count |-> 0, window_start |-> 0, allowed |-> 0]

\* the entry of the slot after the locked part of rate_limiter_check called
\* for ip at time now
rl_entry(e, ip, now) ==
    IF e.ip = <<>> \/ e.ip # ip
    THEN [ip |-> ip, count |-> 1, window_start |-> now, allowed |-> 1]
    ELSE IF now - e.window_start >= RateWindow
    THEN [e EXCEPT !.count = 1, !.window_start = now, !.allowed = 1]
    ELSE [e EXCEPT !.count = @ + 1,
                   !.allowed = IF e.count + 1 <= RateMaxReqs THEN @ + 1 ELSE @]

\* the value rate_limiter_check returns
rl_allowed(e, ip, now) ==
    IF e.ip = <<>> \/ e.ip # ip THEN TRUE
    ELSE IF now - e.window_start >= RateWindow THEN TRUE
    ELSE e.count + 1 <= RateMaxReqs

Idle == [pc |-> "idle", ip |-> <<>>, slot |-> 0, now |-> 0]

\* rate_limiter_check up to pthread_mutex_lock: the hash of ip and time(NULL)
rl_enter(t, ip) ==
    /\ caller[t].pc = "idle"
    /\ Len(granted) + Cardinality({u \in DOMAIN caller : caller[u].pc = "lock"}) < MaxCalls
    /\ caller' = [caller EXCEPT ![t] = [pc |-> "lock", ip |-> ip, slot |-> SlotOf(ip),
                                        now |-> clock]]
    /\ UNCHANGED <<conn, rl, clock, granted, body, errmsg, fertile, req, build, call, run,
                   prev, cpc, nthreads, args, result, found_total, scanned_total,
                   scanned_out, delivered, mutex, wk>>

\* the locked part of rate_limiter_check and its return
rl_locked(t) ==
    /\ caller[t].pc = "lock"
    /\ rl' = [rl EXCEPT ![caller[t].slot] = rl_entry(@, caller[t].ip, caller[t].now)]
    /\ granted' = Append(granted,
                         [ip |-> caller[t].ip, now |-> caller[t].now,
                          allowed |-> rl_allowed(rl[caller[t].slot], caller[t].ip,
                                                 caller[t].now)])
    /\ caller' = [caller EXCEPT ![t] = Idle]
    /\ UNCHANGED <<conn, clock, body, errmsg, fertile, req, build, call, run, prev, cpc,
                   nthreads, args, result, found_total, scanned_total, scanned_out,
                   delivered, mutex, wk>>

rate_limiter_check ==
    \/ \E t \in DOMAIN caller : \E ip \in IPs : rl_enter(t, ip)
    \/ \E t \in DOMAIN caller : rl_locked(t)

\* a second passes
tick ==
    /\ clock < ClockMax
    /\ clock' = clock + 1
    /\ UNCHANGED <<conn, rl, caller, granted, body, errmsg, fertile, req, build, call, run,
                   prev, cpc, nthreads, args, result, found_total, scanned_total,
                   scanned_out, delivered, mutex, wk>>

RateInit ==
    /\ rl = [s \in Slots |-> ZeroEntry]
    /\ clock = 0
    /\ caller = [t \in 1..RateThreads |-> Idle]
    /\ granted = <<>>
    /\ conn = NoConn
    /\ body = NoBody
    /\ errmsg = NoError
    /\ req = ZeroRequest
    /\ fertile = {}
    /\ build = "wrap"
    /\ call = "none"
    /\ run = 1
    /\ prev = NoPrev
    /\ cpc = "idle"
    /\ nthreads = 0
    /\ args = <<>>
    /\ result = ZeroResult
    /\ found_total = 0
    /\ scanned_total = 0
    /\ scanned_out = -1
    /\ delivered = <<>>
    /\ mutex = NoOwner
    /\ wk = <<>>

RateNext == rate_limiter_check \/ tick

RateSpec == RateInit /\ [][RateNext]_vars

\* the calls for ip, made at a time in [t, t + RateWindow), that were allowed
AllowedIn(ip, t) ==
    {k \in DOMAIN granted :
        /\ granted[k].ip = ip /\ granted[k].allowed
        /\ t <= granted[k].now /\ granted[k].now < t + RateWindow}

\* C29: for any client address and any window of RATE_LIMIT_WINDOW seconds,
\* rate_limiter_check allows at most RATE_LIMIT_MAX_REQS of the calls made
\* with that address in the window, whatever calls are made for other
\* addresses, those that share its table slot included.
C29_RateLimit ==
    \A ip \in IPs : \A t \in 0..ClockMax :
        Cardinality(AllowedIn(ip, t)) <= RateMaxReqs

\* What the limiter does guarantee: between two resets of a table entry (a
\* first call, an eviction by another address of the slot, an expired
\* window) it allows at most RATE_LIMIT_MAX_REQS calls.
RateLimitPerEntryWindow ==
    \A s \in DOMAIN rl :
        /\ rl[s].allowed <= RateMaxReqs
        /\ rl[s].allowed = Min(rl[s].count, RateMaxReqs)
        /\ rl[s].ip # <<>> => SlotOf(rl[s].ip) = s

\* The limit of C29 for an address that has its slot to itself, within one
\* window of its entry.
RateLimitWithoutCollision ==
    \A t \in 0..ClockMax :
        (\A k \in DOMAIN granted : granted[k].ip = IpC => granted[k].now < t + RateWindow
                                                        /\ granted[k].now >= t)
            => Cardinality(AllowedIn(IpC, t)) <= RateMaxReqs

\* The limit of C29 exceeded by one address that has its slot to itself: the
\* window is fixed to the first call of the entry, so calls late in one window
\* and early in the next are all allowed.
FixedWindowBurst ==
    /\ \A k \in DOMAIN granted : granted[k].ip = IpC
    /\ \E t \in 0..ClockMax : Cardinality(AllowedIn(IpC, t)) > RateMaxReqs

(***************************************************************************)
(* ScanSpec: the predicate evaluator over a grid of structure queries.     *)
(* The engine is entered with a request for the single seed s, or for the  *)
(* three seeds from 0 on, whose structure list is one query of the grid or *)
(* an ordering of two or three of the mixed queries.  The grid holds the   *)
(* distances at which a candidate of the oracle lies exactly (16, 208,     *)
(* 272), one block short of one (207), and -1025, the value the validator  *)
(* stores for max_distance = 4294966271.  The entry points of engine.h     *)
(* take any SearchRequest: the requests for a structure that the version   *)
(* does not have are those of a caller that does not go through            *)
(* parse_request.                                                          *)
(***************************************************************************)
ScanTypes == {"Village", "Fortress", "Bastion"}
ScanDistances == {16, 207, 208, 272, 400, 500, -1025}
ScanBiomes == {-1, plains, desert, nether_wastes}
ScanQueries == [type : ScanTypes, max_distance : ScanDistances, biome : ScanBiomes]

MixedQueries ==
    { [type |-> "Village",  max_distance |-> 500, biome |-> plains],
      [type |-> "Fortress", max_distance |-> 400, biome |-> -1],
      [type |-> "Bastion",  max_distance |-> 400, biome |-> nether_wastes],
      [type |-> "Village",  max_distance |-> 208, biome |-> desert] }

\* the orderings of two or three distinct mixed queries
MixedLists ==
    {<<a, b>> : a \in MixedQueries, b \in MixedQueries} \cup
    {<<a, b, c>> : a \in MixedQueries, b \in MixedQueries, c \in MixedQueries}

ScanLists ==
    {<<q>> : q \in ScanQueries} \cup {q \in MixedLists : NoDup(q)}

ScanRequests ==
    { [mc_version |-> mc, seed_start |-> st, seed_end |-> st,
       max_results |-> 1, structures |-> q] :
         mc \in {MC_1_15, MC_1_16_5}, st \in SeedMin..(SeedMax - 1), q \in ScanLists }
    \cup
    { [mc_version |-> MC_1_15, seed_start |-> 0, seed_end |-> 2,
       max_results |-> MaxRes, structures |-> q] : q \in MixedLists }

ScanInit ==
    /\ req \in {r \in ScanRequests : NoDup(r.structures)}
    /\ fertile \in SUBSET (req.seed_start..req.seed_end)
    /\ build = "wrap"
    /\ call \in Calls
    /\ run = 1
    /\ prev = NoPrev
    /\ cpc = "entry"
    /\ nthreads = 0
    /\ args = <<>>
    /\ result = ZeroResult
    /\ found_total = 0
    /\ scanned_total = 0
    /\ scanned_out = -1
    /\ delivered = <<>>
    /\ mutex = NoOwner
    /\ wk = <<>>
    /\ body = NoBody
    /\ errmsg = NoError
    /\ NoFrontEnd

ScanNext ==
    \/ search_seeds
    \/ search_seeds_join
    \/ search_seeds_stream
    \/ search_seeds_stream_join
    \/ thread_worker
    \/ stream_thread_worker

ScanSpec == ScanInit /\ [][ScanNext]_vars

RECURSIVE RegionTrace(_, _, _, _, _, _, _)
\* What the region loops do when entered at (rx, rz) with the generator g:
\* the regions whose candidate they look at, in order, each with the
\* generator at that time, whether isViableStructurePos is called for it, and
\* whether it sets found.
RegionTrace(g, sq, mc_version, seed, max_reg, rx, rz) ==
    IF rx > max_reg THEN <<>>
    ELSE IF rz > max_reg THEN RegionTrace(g, sq, mc_version, seed, max_reg, rx + 1, -max_reg)
    ELSE LET pos == getStructurePos(sq.type, mc_version, seed, rx, rz)
             r   == PosCheck(g, sq, mc_version, seed, pos)
             e   == [rx |-> rx, rz |-> rz, g |-> g, found |-> r.ret,
                     viable_called |->
                         /\ pos.present
                         /\ ~(pos.x * pos.x + pos.z * pos.z
                                > sq.max_distance * sq.max_distance)]
         IN  IF r.ret THEN <<e>>
             ELSE <<e>> \o RegionTrace(r.g, sq, mc_version, seed, max_reg, rx, rz + 1)

\* the trace of the scan of one query (empty when the structure has no config)
QueryTrace(g, sq, mc_version, seed) ==
    LET sconf == getStructureConfig(sq.type, mc_version)
    IN  IF ~sconf.present THEN <<>>
        ELSE LET max_reg == CDiv(sq.max_distance, sconf.regionSize * 16) + 2
             IN  RegionTrace(g, sq, mc_version, seed, max_reg, -max_reg, -max_reg)

\* the worker of a search is about to evaluate its seed
Evaluating(i) == wk[i].pc = "scan"

\* the verdict of the evaluation step that worker i takes
Verdict(i) == wk'[i].pc = "pub_lock"

\* the regions of the square of query sq that satisfy it for the seed, by the
\* specification's conditions
Satisfying(sq, mc, s) ==
    LET sconf   == getStructureConfig(sq.type, mc)
        max_reg == (sq.max_distance \div (sconf.regionSize * 16)) + 2
    IN  {rg \in ((-max_reg)..max_reg) \X ((-max_reg)..max_reg) :
            LET pos == getStructurePos(sq.type, mc, s, rg[1], rg[2])
            IN  /\ sconf.present
                /\ pos.present
                /\ pos.x * pos.x + pos.z * pos.z <= sq.max_distance * sq.max_distance
                /\ isViableStructurePos(sq.type, [dim |-> DIM_OVERWORLD, seed |-> s],
                                        pos.x, pos.z)
                /\ sq.biome >= 0 =>
                     getBiomeAt([dim |-> sconf.dim, seed |-> s], 4,
                                pos.x \div 4, 15, pos.z \div 4) = sq.biome}

\* region a is scanned before region b (rx outer, rz inner, both ascending)
ScannedBefore(a, b) == a[1] < b[1] \/ (a[1] = b[1] /\ a[2] < b[2])

\* the scan of sq for seed s, started with the generator g, ends at the first
\* satisfying region of the scan order, or goes through the square when there
\* is none
StopsAtFirst(g, sq, mc, s) ==
    LET tr   == QueryTrace(g, sq, mc, s)
        sat  == Satisfying(sq, mc, s)
        last == tr[Len(tr)]
    IN  IF sat = {} THEN \A k \in 1..Len(tr) : ~tr[k].found
        ELSE /\ Len(tr) > 0 /\ last.found
             /\ <<last.rx, last.rz>> \in sat
             /\ \A rg \in sat : ~ScannedBefore(rg, <<last.rx, last.rz>>)
             /\ \A k \in 1..(Len(tr) - 1) : ~tr[k].found

\* the evaluation step of a worker whose request has the one query sq finds
\* the seed valid iff a region of the square satisfies sq, and its scan stops
\* at the first such region
SingleQueryVerdict ==
    \A i \in Workers :
        (Evaluating(i) /\ wk'[i] # wk[i] /\ Len(req.structures) = 1) =>
            LET sq == req.structures[1]
                g0 == applySeed(wk[i].g, DIM_OVERWORLD, wk[i].seed)
            IN  /\ Verdict(i) <=> Satisfying(sq, req.mc_version, wk[i].seed) # {}
                /\ QuerySatisfied(sq, req.mc_version, wk[i].seed)
                     <=> Satisfying(sq, req.mc_version, wk[i].seed) # {}
                /\ StopsAtFirst(g0, sq, req.mc_version, wk[i].seed)

\* C33: a structure query is satisfied for a seed iff a region of the square
\* [-maxRegion, maxRegion]^2, maxRegion = floor(maxDistance / (regionSize*16))
\* + 2, has a candidate that is present, within maxDistance (boundary
\* included), viable and, when a biome is requested, of that biome; and the
\* scan of the query stops at the first satisfying region.
C33_QuerySatisfiedIffRegion == [][SingleQueryVerdict]_vars

\* The same for the queries whose stored max_distance is positive, as the
\* validator means it to be.
PositiveQueryVerdict ==
    [][(\A k \in 1..Len(req.structures) : req.structures[k].max_distance > 0)
          => SingleQueryVerdict]_vars

\* a worker found its seed valid for a query whose nearest candidate lies
\* exactly at max_distance
BoundaryMatch ==
    /\ Len(req.structures) = 1 /\ req.structures[1].max_distance = 208
    /\ req.structures[1].type = "Village" /\ req.seed_start = -2
    /\ \E i \in Workers : wk[i].pc = "pub_lock"

RECURSIVE StructTrace(_, _, _, _)
\* the traces of the queries the structure loop scans from query s on, one
\* after the other: the loop ends at the first query that is not satisfied
StructTrace(g, rq, seed, s) ==
    IF s > Len(rq.structures) THEN <<>>
    ELSE LET r == QueryScan(g, rq.structures[s], rq.mc_version, seed)
         IN  QueryTrace(g, rq.structures[s], rq.mc_version, seed)
               \o (IF r.ret THEN StructTrace(r.g, rq, seed, s + 1) ELSE <<>>)

\* the trace of the evaluation of seed by a worker whose generator is g
EvalTrace(g, rq, seed) == StructTrace(applySeed(g, DIM_OVERWORLD, seed), rq, seed, 1)

\* the generator configured for the overworld of the seed
Overworld(seed) == [dim |-> DIM_OVERWORLD, seed |-> seed]

\* at every call of isViableStructurePos in the evaluation step of a worker
\* the generator is that of (OVERWORLD, seed), and so it is after the step
ViableOnOverworld ==
    \A i \in Workers :
        (Evaluating(i) /\ wk'[i] # wk[i]) =>
            LET tr == EvalTrace(wk[i].g, req, wk[i].seed)
            IN  /\ \A k \in 1..Len(tr) :
                      tr[k].viable_called => tr[k].g = Overworld(wk[i].seed)
                /\ wk'[i].g = Overworld(wk[i].seed)

\* C34: whenever a worker calls the viability test for a seed its generator
\* is configured to (OVERWORLD, seed): check_biome_filter repoints it to the
\* structure's dimension for the biome sample only and restores it before it
\* returns, whatever the comparison gives, across all queries and regions.
C34_ViableOnOverworld == [][ViableOnOverworld]_vars

\* the biome filter compared and failed at region k of the trace
FilterFailedAt(tr, k) ==
    /\ tr[k].viable_called /\ ~tr[k].found
    /\ isViableStructurePos("any", tr[k].g, 0, 0)

\* C34 witness: a worker has evaluated a seed of a request whose first query
\* samples the nether: the biome filter failed in one region, a later region
\* satisfied its query, and the viability test was called again after it.
C34_Witness ==
    /\ Len(req.structures) >= 2 /\ req.seed_start = req.seed_end
    /\ req.structures[1].biome >= 0
    /\ getStructureConfig(req.structures[1].type, req.mc_version).dim = DIM_NETHER
    /\ \E i \in Workers :
          /\ wk[i].local_scanned = 1 /\ wk[i].g = Overworld(req.seed_start)
          /\ LET tr == EvalTrace(wk[i].g, req, req.seed_start)
             IN  \E a, b, c \in 1..Len(tr) :
                    /\ a < b /\ b < c
                    /\ FilterFailedAt(tr, a)
                    /\ tr[b].found /\ tr[c].viable_called

\* the orderings of the list q of distinct queries
Perms(q) == {p \in [1..Len(q) -> Range(q)] : Range(p) = Range(q)}

\* the verdict of the evaluation step of a worker is the verdict the
\* evaluation gives for every ordering of the request's queries
VerdictOrderFree ==
    \A i \in Workers :
        (Evaluating(i) /\ wk'[i] # wk[i]) =>
            \A p \in Perms(req.structures) :
                Verdict(i) <=>
                    tw_scan([req EXCEPT !.structures = p], wk[i].seed, wk[i].g).ret

\* C35: the match verdict for a seed does not depend on the order of the
\* structure queries of the request: under every permutation of the query
\* list the seed matches iff it matches under the original list.
C35_VerdictOrderFree == [][VerdictOrderFree]_vars

\* C35 witness: a worker has evaluated the seed of a request of three queries
\* of which an earlier one is satisfied and a later one is not, so that the
\* orderings differ in where the loop ends.
C35_Witness ==
    /\ Len(req.structures) = 3 /\ req.seed_start = req.seed_end
    /\ \E i \in Workers : wk[i].local_scanned = 1
    /\ \E k, l \in 1..3 :
          /\ k < l
          /\ QuerySatisfied(req.structures[k], req.mc_version, req.seed_start)
          /\ ~QuerySatisfied(req.structures[l], req.mc_version, req.seed_start)

\* a worker found the seed of a request of three queries valid
ThreeQueriesMatch ==
    /\ Len(req.structures) = 3
    /\ \E i \in Workers : wk[i].pc = "pub_lock"

\* query k of the request has no config in the request's version
Absent(rq, k) == ~getStructureConfig(rq.structures[k].type, rq.mc_version).present
HasAbsent(rq) == \E k \in 1..Len(rq.structures) : Absent(rq, k)

\* the structure loop of seed s comes to a query without a config: the
\* queries before it are satisfied
ReachesAbsent(rq, s) ==
    \E k \in 1..Len(rq.structures) :
        /\ Absent(rq, k)
        /\ \A j \in 1..(k - 1) : QuerySatisfied(rq.structures[j], rq.mc_version, s)

\* the evaluation step of a seed whose structure loop comes to a query
\* without a config counts the seed, does not find it valid, goes on to the
\* next seed at the top of the loop and leaves the result alone
AbsentConfigStep ==
    \A i \in Workers :
        (Evaluating(i) /\ wk'[i] # wk[i] /\ ReachesAbsent(req, wk[i].seed)) =>
            /\ ~Verdict(i)
            /\ wk'[i].local_scanned = wk[i].local_scanned + 1
            /\ wk'[i].seed = wk[i].seed + 1
            /\ wk'[i].pc \in {"chk_lock", "scan", "fin_lock"}
            /\ wk'[i].pc = "fin_lock" <=> wk'[i].seed > args[i].seed_end
            /\ UNCHANGED <<result, found_total, delivered, cpc>>

\* a search on a request with a query without a config goes through the
\* whole range and returns nothing
AbsentConfigDone ==
    (Returned /\ HasAbsent(req)) =>
        /\ result.count = 0 /\ result.seeds = <<>> /\ delivered = <<>>
        /\ Batched => result.scanned = req.seed_end - req.seed_start + 1
        /\ Streaming => scanned_out = req.seed_end - req.seed_start + 1

\* C36: when the oracle reports no structure config for a query during a
\* scan, the seed is treated as not matching and the scan goes on with the
\* next seed: the search is not aborted, the seed is counted as scanned, and
\* nothing is appended to the result for it.
C36_AbsentConfigNoMatch == []AbsentConfigDone /\ [][AbsentConfigStep]_vars

\* C36 witness: a search over three seeds has returned on a request whose
\* second query has no config and whose first query is satisfied by a seed of
\* the range.
C36_Witness ==
    /\ Returned /\ req.seed_end = req.seed_start + 2
    /\ Len(req.structures) >= 2 /\ Absent(req, 2) /\ ~Absent(req, 1)
    /\ \E s \in req.seed_start..req.seed_end :
          QuerySatisfied(req.structures[1], req.mc_version, s)
    /\ \A i \in Workers : wk[i].pc = "exit"

====
